---- MODULE Spec2Model ----
(***************************************************************************)
(* The AI review service of nipa (src/air): the persisted request queue,   *)
(* the pool of setup workers, the bounded queue of temporary work tree     *)
(* copies, the pool of LLM workers and the review metadata store.          *)
(*                                                                         *)
(* Every critical section of the code (a "with self.lock:" block, one call *)
(* on a queue.Queue) is one atomic step.  metadata.json is only read and   *)
(* written under the storage lock with a reload before every change, so    *)
(* the variable reviews is the content of that file.                       *)
(***************************************************************************)
EXTENDS Integers, Sequences, FiniteSets, TLC

(***************************************************************************)
(* Bounds of the model.  The service runs in two configurations: the      *)
(* larger one without a crash of the process, the smaller one with         *)
(* crashes and restarts.                                                   *)
(***************************************************************************)
\* [air] max_work_trees: the number of work trees and of setup workers
MaxWorkTrees == 2
\* [air] max_work_trees of the configuration that is crashed and restarted
CrashWorkTrees == 1
\* [air] max_claude_runs: the number of LLM workers
MaxClaudeRuns == 1
\* [claude] retries: the attempts per temp copy
ClaudeRetries == 2
\* [claude] retries of the configuration that is crashed and restarted
CrashRetries == 1
\* number of reviews submitted in one behaviour
MaxReviews == 2
\* number of crash/restart cycles of the service process in one behaviour
MaxCrashes == 1

VARIABLES
    config,        \* AirConfig: max_work_trees, max_claude_runs, claude_retries
    reviews,       \* metadata.json: review_id -> review record
    submit,        \* HTTP threads inside submit_review: review_id -> position
    queue,         \* ReviewQueue.queue, the in-memory queue.Queue
    queued_items,  \* ReviewQueue.queued_items, the list that is persisted
    queue_file,    \* content of queue.json
    setup,         \* setup worker threads: position, request held, patch index
    temp_copy_queue, \* TempCopyQueue.queue
    llm,           \* LLM worker threads: position, temp copy held, attempt
    temp_dirs,     \* temporary work tree copies that exist on disk
    crashes,       \* number of crashes of the process so far
    put_order,     \* history: review ids in the order of queue.put, since the
                   \*          process started
    dequeued,      \* history: review ids in the order of queue.get, since the
                   \*          process started
    returned,      \* history: review ids for which ReviewQueue.get has returned
    emitted,       \* history: reviews whose emission loop ran to its end
                   \*          without a failed temp copy, since the process started
    message_file,  \* the file 'message' of every review directory
    setup_failed,  \* history: reviews for which a step of the setup failed
    mask_marked,   \* history: calls of mark_patch_complete by the setup workers
                   \*          for masked patches, per review and patch
    marked,        \* history: calls of mark_patch_complete by any worker, per
                   \*          review and patch number
    unfinished_tasks, \* TempCopyQueue.queue.unfinished_tasks
    boot,          \* the start of the service: the calls that create the workers
    remote,        \* WorkTreeManager.add_remote: lock, remotes, callers
    store,         \* ReviewStorage step by step: lock, self.reviews, metadata.json
    rq,            \* ReviewQueue step by step, with the writes of queue.json
    api,           \* the operations of ReviewStorage called one after another,
                   \*          with the clock
    front,         \* one call of AirService.submit_review with its data
    derive,        \* one call of SetupWorker._get_commit_hashes for a hash
    snap           \* the temp copies of the work trees, counted: made, on disk,
                   \*          queued, held by the workers

\* what the request pipeline writes beside metadata.json, and its history
notes == <<message_file, setup_failed, mask_marked>>

\* the calls of mark_patch_complete so far and the tasks of the temp copy queue
\* that are not done
tally == <<marked, unfinished_tasks>>

\* the parts of the service that are modelled on their own
aux == <<boot, remote, store, rq, api, front, derive, snap>>

\* the request pipeline: queues, workers, metadata
service_vars == <<config, reviews, submit, queue, queued_items, queue_file, setup,
                  temp_copy_queue, llm, temp_dirs, crashes,
                  put_order, dequeued, returned, emitted, notes, tally>>

vars == <<service_vars, aux>>

None == "None"

\* the threads WorkerPool.start starts
SetupWorkers == 1..config.max_work_trees
LLMWorkers == 1..config.max_claude_runs

(***************************************************************************)
(* Sequences.                                                              *)
(***************************************************************************)
Range(s) == {s[i] : i \in DOMAIN s}

\* list(reversed(s))
Reversed(s) == [i \in 1..Len(s) |-> s[Len(s) + 1 - i]]

\* list.remove(x): removes the first element equal to x
ListRemove(s, x) ==
    LET p == CHOOSE i \in 1..Len(s) : s[i] = x /\ \A j \in 1..(i - 1) : s[j] # x
    IN  SubSeq(s, 1, p - 1) \o SubSeq(s, p + 1, Len(s))

ReviewIds(s) == [i \in 1..Len(s) |-> s[i].review_id]

Count(s, x) == Cardinality({i \in DOMAIN s : s[i] = x})

(***************************************************************************)
(* The repository: a linear history, the commits c1 and c2 on top of the   *)
(* base c0.  A full commit hash is <<first 12 characters, the rest>>.      *)
(***************************************************************************)
History == <<"c1", "c2">>

\* number of commits between the base and a revision
Position(rev) ==
    IF rev = "c0" THEN 0 ELSE CHOOSE n \in DOMAIN History : History[n] = rev

FullHash(n) == <<History[n], "rest">>

\* commit_hash[:12]
Prefix12(commit_hash) == commit_hash[1]

\* A 'hash' of a request is a sequence of tokens: <<"c1">> is one revision,
\* <<"c0", "..", "c2">> is a range.  The submissions of the model: one commit,
\* a range of two commits, and the range with a mask that switches patch 1 off.
Submissions ==
    {[hash |-> <<"c1">>, mask |-> << >>],
     [hash |-> <<"c0", "..", "c2">>, mask |-> << >>],
     [hash |-> <<"c0", "..", "c2">>, mask |-> <<FALSE>>]}

\* '..' in hash_str
IsRange(hash_str) == ".." \in Range(hash_str)

\* git_range of _get_commit_hashes: hash_str itself, or f"{hash_str}^..{hash_str}"
GitRange(hash_str) ==
    IF IsRange(hash_str) THEN hash_str ELSE hash_str \o <<"^", "..">> \o hash_str

\* git rev-list <range>: the commits reachable from the right end and not from
\* the left end, newest first
RevList(git_range) ==
    LET p == CHOOSE i \in DOMAIN git_range : git_range[i] = ".."
        left == IF git_range[p - 1] = "^"
                THEN Position(git_range[1]) - 1
                ELSE Position(git_range[1])
        right == Position(git_range[p + 1])
    IN  [i \in 1..(right - left) |-> FullHash(right + 1 - i)]

\* the empty string where a commit hash is expected
EmptyLine == <<"", "">>

\* result.stdout.strip().split('\n'): one element per line of the output, and
\* one empty string when the output is empty
SplitLines(stdout) == IF stdout = << >> THEN <<EmptyLine>> ELSE stdout

\* _range_to_hashes: rev-list returns newest first, the patches are oldest first
range_to_hashes(git_range) == Reversed(SplitLines(RevList(git_range)))

\* the commit_hashes a request yields
commit_hashes(request) == range_to_hashes(GitRange(request.hash))

(***************************************************************************)
(* ReviewStorage: the operations on the metadata map, each run under the   *)
(* storage lock as reload, change, save.                                   *)
(***************************************************************************)
\* the record create_review writes (completed_patches and failed_patches are
\* created as 0 by the first mark_patch_complete; they are 0 from the start here)
NewReview(review_id, token, request_data) ==
    [id |-> review_id, token |-> token, status |-> "queued",
     start |-> None, start_llm |-> None, end |-> None, message |-> None,
     hash |-> request_data.hash, patch_count |-> 0,
     completed_patches |-> 0, failed_patches |-> 0]

\* the time of day at the n-th tick of the clock
Clock(n) == "t" \o ToString(n)

\* datetime.utcnow().isoformat()
Now == Clock(api.tick)

\* a timestamp that was set is kept for good
Unset_always(value) == TRUE

\* self.reviews[review_id]['start'] is None, .get('end') is None
Unset(value) == value = None

\* a storage that makes a record for a review id it does not know
Unknown_created(m, review_id) ==
    Append(m, NewReview(review_id, None, [hash |-> << >>]))

\* review_id is not in self.reviews: the operation returns, nothing is saved
Unknown(m, review_id) == m

update_review_status(m, review_id, status, message) ==
    IF review_id \notin DOMAIN m THEN Unknown(m, review_id)
    ELSE LET r == m[review_id]
             s == IF status = "in-progress" /\ Unset(r.start) THEN Now ELSE r.start
             e == IF status \in {"done", "error"} /\ Unset(r.end) THEN Now ELSE r.end
             t == IF message # None THEN message ELSE r.message
         IN  [m EXCEPT ![review_id] =
                 [r EXCEPT !.status = status, !.start = s, !.end = e,
                           !.message = t]]

\* a storage that forgets the count
set_patch_count_skipped(m, review_id, count) == m

set_patch_count(m, review_id, count) ==
    IF review_id \notin DOMAIN m THEN Unknown(m, review_id)
    ELSE [m EXCEPT ![review_id].patch_count = count]

set_llm_start_time(m, review_id) ==
    IF review_id \notin DOMAIN m THEN Unknown(m, review_id)
    ELSE IF Unset(m[review_id].start_llm)
         THEN [m EXCEPT ![review_id].start_llm = Now]
         ELSE m

\* f'{failed} of {total} patches failed review'
FailedMessage(failed, total) ==
    ToString(failed) \o " of " \o ToString(total) \o " patches failed review"

\* all patches are complete only when completed equals total
AllComplete_exact(completed, total) == completed = total /\ total > 0

\* completed >= total and total > 0
AllComplete(completed, total) == completed >= total /\ total > 0

mark_patch_complete(m, review_id, patch_num, success) ==
    IF review_id \notin DOMAIN m THEN Unknown(m, review_id)
    ELSE LET r == m[review_id]
             completed == r.completed_patches + 1
             failed == IF success THEN r.failed_patches ELSE r.failed_patches + 1
             total == r.patch_count
             counted == [r EXCEPT !.completed_patches = completed,
                                  !.failed_patches = failed]
         IN  IF AllComplete(completed, total)
             THEN [m EXCEPT ![review_id] =
                     [counted EXCEPT
                        !.status = IF failed > 0 THEN "error" ELSE "done",
                        !.message = IF failed > 0 /\ r.message = None
                                    THEN FailedMessage(failed, total)
                                    ELSE r.message,
                        !.end = IF Unset(r.end) THEN Now ELSE r.end]]
             ELSE [m EXCEPT ![review_id] = counted]

(***************************************************************************)
(* WorkTreeManager: temporary copies of a work tree.                       *)
(***************************************************************************)
\* get_work_tree_path
get_work_tree_path(wt_id) == <<"wt", wt_id>>

\* the path create_temp_copy copies to: f"{wt_path}.{commit_hash[:12]}"
temp_copy_path(wt_id, commit_hash) ==
    <<get_work_tree_path(wt_id), Prefix12(commit_hash)>>

\* cp -a --reflink wt_path temp_path succeeded: the directory exists afterwards
\* (cp into a directory that exists already succeeds as well)
create_temp_copy(dirs, wt_id, commit_hash) ==
    dirs \cup {temp_copy_path(wt_id, commit_hash)}

\* the directory is kept, as with keep_temp_trees
remove_temp_copy_kept(dirs, temp_path) == dirs

\* shutil.rmtree(temp_path) if it exists
remove_temp_copy(dirs, temp_path) == dirs \ {temp_path}

(***************************************************************************)
(* AirService.__init__: the capacity of the temp copy queue.               *)
(***************************************************************************)
\* a queue with room for three temp copies per LLM worker
MaxTempCopies_more(max_claude_runs) == max_claude_runs * 3

MaxTempCopies(max_claude_runs) == max_claude_runs * 2

max_temp_copies == MaxTempCopies(config.max_claude_runs)

\* a queue created without maxsize is never full
TempCopyQueue_unbounded(q) == FALSE

\* queue.Queue(maxsize).put(block=True) waits while the queue is full
TempCopyQueue_full(q) == Len(q) >= max_temp_copies

(***************************************************************************)
(* Initial state: the service has just been constructed on an empty        *)
(* results directory; every worker thread waits on its queue.              *)
(***************************************************************************)
\* what an idle thread holds: no request, no temp copy
NoRequest == [review_id |-> 0, hash |-> << >>, mask |-> << >>, patch_count |-> 0]
NoInfo == [temp_path |-> << >>, review_id |-> 0, patch_num |-> 0,
           commit_hash |-> << >>]

IdleSetup == [pc |-> "idle", request |-> NoRequest, i |-> 0, skipped |-> FALSE]
\* results: the outcome of every attempt on the temp copy held ("True",
\*          "False", or "raised" when _run_claude_review raised);
\* flag:    the success argument of the call of mark_patch_complete for the
\*          temp copy held, None while it has not been called
IdleLLM == [pc |-> "idle", info |-> NoInfo, attempt |-> 0, results |-> << >>,
            flag |-> None]

InitWith(air_config) ==
    /\ config = air_config
    /\ reviews = << >>
    /\ submit = << >>
    /\ queue = << >>
    /\ queued_items = << >>
    /\ queue_file = << >>
    /\ setup = [w \in SetupWorkers |-> IdleSetup]
    /\ temp_copy_queue = << >>
    /\ llm = [k \in LLMWorkers |-> IdleLLM]
    /\ temp_dirs = {}
    /\ crashes = 0
    /\ put_order = << >>
    /\ dequeued = << >>
    /\ returned = {}
    /\ emitted = {}
    /\ message_file = [r \in 1..MaxReviews |-> None]
    /\ setup_failed = {}
    /\ mask_marked = [r \in 1..MaxReviews |-> [i \in DOMAIN History |-> 0]]
    /\ marked = [r \in 1..MaxReviews |-> [i \in DOMAIN History |-> 0]]
    /\ unfinished_tasks = 0

(***************************************************************************)
(* AirService.submit_review, run by a thread of the HTTP front end.        *)
(***************************************************************************)
\* the token of the client that submits the reviews
Submitter == "alice"

\* validation passed: create_review, then the request for the queue is built
submit_review ==
    /\ Len(reviews) < MaxReviews
    /\ \E data \in Submissions :
         LET review_id == Len(reviews) + 1
             request == [review_id |-> review_id, hash |-> data.hash,
                         mask |-> data.mask, patch_count |-> 1]
         IN  /\ reviews' = Append(reviews, NewReview(review_id, Submitter, data))
             /\ submit' = Append(submit, [pc |-> "put", request |-> request])
    /\ UNCHANGED <<config, aux, notes, tally, queue, queued_items, queue_file, setup, temp_copy_queue,
                   llm, temp_dirs, crashes, put_order, dequeued, returned, emitted>>

\* ReviewQueue.put, first half: self.queue.put(item)
ReviewQueue_put_enqueue ==
    \E r \in DOMAIN submit :
       /\ submit[r].pc = "put"
       /\ queue' = Append(queue, submit[r].request)
       /\ put_order' = Append(put_order, r)
       /\ submit' = [submit EXCEPT ![r].pc = "lock"]
       /\ UNCHANGED <<config, aux, notes, tally, reviews, queued_items, queue_file, setup, temp_copy_queue,
                      llm, temp_dirs, crashes, dequeued, returned, emitted>>

\* ReviewQueue.put, second half, under the queue lock:
\* self.queued_items.append(item); self.save_queue()
ReviewQueue_put_persist ==
    \E r \in DOMAIN submit :
       /\ submit[r].pc = "lock"
       /\ queued_items' = Append(queued_items, submit[r].request)
       /\ queue_file' = queued_items'
       /\ submit' = [submit EXCEPT ![r].pc = "done"]
       /\ UNCHANGED <<config, aux, notes, tally, reviews, queue, setup, temp_copy_queue, llm, temp_dirs,
                      crashes, put_order, dequeued, returned, emitted>>

(***************************************************************************)
(* SetupWorker.worker_loop and process_review.                             *)
(***************************************************************************)
\* a queue that hands out its newest item first
QueueGet_lifo(q) == [item |-> q[Len(q)], rest |-> SubSeq(q, 1, Len(q) - 1)]

\* queue.Queue.get: the oldest item (ReviewQueue.get, first half, and
\* TempCopyQueue.get)
QueueGet(q) == [item |-> Head(q), rest |-> Tail(q)]

ReviewQueue_get_dequeue ==
    \E w \in SetupWorkers :
       /\ setup[w].pc = "idle"
       /\ queue # << >>
       /\ LET got == QueueGet(queue)
          IN  /\ queue' = got.rest
              /\ setup' = [setup EXCEPT ![w] = [IdleSetup EXCEPT !.pc = "got",
                                                  !.request = got.item]]
              /\ dequeued' = Append(dequeued, got.item.review_id)
       /\ UNCHANGED <<config, aux, notes, tally, reviews, submit, queued_items, queue_file, temp_copy_queue,
                      llm, temp_dirs, crashes, put_order, returned, emitted>>

\* ReviewQueue.get, second half, under the queue lock:
\* if item in self.queued_items: remove it and save_queue(); return item
ReviewQueue_get_persist ==
    \E w \in SetupWorkers :
       /\ setup[w].pc = "got"
       /\ IF setup[w].request \in Range(queued_items)
          THEN /\ queued_items' = ListRemove(queued_items, setup[w].request)
               /\ queue_file' = queued_items'
          ELSE UNCHANGED <<queued_items, queue_file>>
       /\ setup' = [setup EXCEPT ![w].pc = "start"]
       /\ returned' = returned \cup {setup[w].request.review_id}
       /\ UNCHANGED <<config, aux, notes, tally, reviews, submit, queue, temp_copy_queue, llm, temp_dirs,
                      crashes, put_order, dequeued, emitted>>

\* process_review: self.storage.update_review_status(review_id, 'in-progress')
process_review_start ==
    \E w \in SetupWorkers :
       /\ setup[w].pc = "start"
       /\ reviews' = update_review_status(reviews, setup[w].request.review_id,
                                          "in-progress", None)
       /\ setup' = [setup EXCEPT ![w].pc = "setup"]
       /\ UNCHANGED <<config, aux, notes, tally, submit, queue, queued_items, queue_file, temp_copy_queue,
                      llm, temp_dirs, crashes, put_order, dequeued, returned,
                      emitted>>

\* write_message: the text goes to the file 'message' of the review directory
write_message(files, review_id, message) == [files EXCEPT ![review_id] = message]

\* f'Commit {h} not found', h the revision left of '..' or the hash itself
CommitNotFound(hash_str) == "Commit " \o Head(hash_str) \o " not found"

\* a handler that records no message
SetupFailed_silent(command) == None

\* f'Setup failed: {str(e)}' of worker_loop, e the CalledProcessError of a command
SetupFailed(command) == "Setup failed: " \o command

\* worker_loop, lines 59-64: an exception left process_review; the handler sets
\* the status of the review to error and the loop goes back to the queue
worker_loop_except(w, command) ==
    /\ reviews' = update_review_status(reviews, setup[w].request.review_id,
                                       "error", SetupFailed(command))
    /\ setup' = [setup EXCEPT ![w] = IdleSetup]

\* process_review, from _setup_remote to _run_semcode_index.  These steps work
\* on the worker's own tree and on the record of its own review only:
\*  - _setup_remote fails: status error, message file, the worker returns;
\*  - check_commit_exists fails: status error, message file, the worker returns;
\*  - git rev-list of _range_to_hashes fails (check=True): the exception goes to
\*    worker_loop, which sets the status to error and writes no message file;
\*  - set_patch_count, then the indexer fails: status error, message file, the
\*    worker returns;
\*  - set_patch_count, the indexer succeeds: the loop over the commits starts.
process_review_setup ==
    \E w \in SetupWorkers :
       /\ setup[w].pc = "setup"
       /\ LET request == setup[w].request
              review_id == request.review_id
              counted == set_patch_count(reviews, review_id,
                                         Len(commit_hashes(request)))
              fatal(m, message) ==
                  /\ reviews' = update_review_status(m, review_id, "error", message)
                  /\ message_file' = write_message(message_file, review_id, message)
                  /\ setup' = [setup EXCEPT ![w] = IdleSetup]
                  /\ setup_failed' = setup_failed \cup {review_id}
          IN  \/ fatal(reviews, "Failed to setup git remote")
              \/ fatal(reviews, CommitNotFound(request.hash))
              \/ /\ worker_loop_except(w, "git rev-list")
                 /\ setup_failed' = setup_failed \cup {review_id}
                 /\ UNCHANGED message_file
              \/ fatal(counted, "Failed to run semcode indexing")
              \/ /\ reviews' = counted
                 /\ setup' = [setup EXCEPT ![w].pc = "emit", ![w].i = 1]
                 /\ UNCHANGED <<message_file, setup_failed>>
       /\ UNCHANGED <<config, aux, mask_marked, tally, submit, queue, queued_items, queue_file,
                      temp_copy_queue, llm, temp_dirs, crashes, put_order, dequeued,
                      returned, emitted>>

\* a loop that looks at no mask
Masked_never(mask, i) == FALSE

\* i - 1 < len(mask) and not mask[i - 1]
Masked(mask, i) == i - 1 < Len(mask) /\ ~mask[i]

\* the loop over enumerate(commit_hashes, 1) moves to the next patch, or ends
\* and the worker goes back to its queue
NextPatch(s, skipped) ==
    IF s.i < Len(commit_hashes(s.request))
    THEN [s EXCEPT !.pc = "emit", !.i = s.i + 1, !.skipped = skipped]
    ELSE IdleSetup

\* history: the emission loop of the review ended and no patch of it was skipped
EmittedAfter(s, skipped) ==
    IF s.i < Len(commit_hashes(s.request)) \/ skipped
    THEN emitted
    ELSE emitted \cup {s.request.review_id}

\* process_review: a masked patch is marked complete and skipped
process_review_masked ==
    \E w \in SetupWorkers :
       /\ setup[w].pc = "emit"
       /\ Masked(setup[w].request.mask, setup[w].i)
       /\ reviews' = mark_patch_complete(reviews, setup[w].request.review_id,
                                         setup[w].i, TRUE)
       /\ mask_marked' = [mask_marked EXCEPT
                            ![setup[w].request.review_id][setup[w].i] = @ + 1]
       /\ marked' = [marked EXCEPT
                       ![setup[w].request.review_id][setup[w].i] = @ + 1]
       /\ setup' = [setup EXCEPT ![w] = NextPatch(setup[w], setup[w].skipped)]
       /\ emitted' = EmittedAfter(setup[w], setup[w].skipped)
       /\ UNCHANGED <<config, aux, message_file, setup_failed, unfinished_tasks,
                      submit, queue,
                      queued_items, queue_file, temp_copy_queue, llm, temp_dirs,
                      crashes, put_order, dequeued, returned>>

\* process_review, lines 114-121: create_temp_copy succeeds, git_reset_hard of
\* the copy returns False: the copy is removed and the loop continues with the
\* next patch
git_reset_hard_failed(w) ==
    LET s == setup[w]
        commit_hash == commit_hashes(s.request)[s.i]
        copied == create_temp_copy(temp_dirs, w, commit_hash)
    IN  /\ temp_dirs' = remove_temp_copy(copied, temp_copy_path(w, commit_hash))
        /\ setup' = [setup EXCEPT ![w] = NextPatch(s, TRUE)]
        /\ emitted' = EmittedAfter(s, TRUE)
        /\ UNCHANGED reviews

\* process_review: create_temp_copy and git_reset_hard of the copy.
\*  - both succeed: the copy is ready to be queued;
\*  - cp fails: create_temp_copy raises, worker_loop catches the exception and
\*    sets the status to error;
\*  - the reset fails: the copy is removed and the patch is skipped.
process_review_temp_copy ==
    \E w \in SetupWorkers :
       /\ setup[w].pc = "emit"
       /\ ~Masked(setup[w].request.mask, setup[w].i)
       /\ LET s == setup[w]
              commit_hash == commit_hashes(s.request)[s.i]
              copied == create_temp_copy(temp_dirs, w, commit_hash)
          IN  \/ /\ temp_dirs' = copied
                 /\ setup' = [setup EXCEPT ![w].pc = "put"]
                 /\ UNCHANGED <<reviews, emitted>>
              \/ /\ worker_loop_except(w, "cp")
                 /\ UNCHANGED <<temp_dirs, emitted>>
              \/ git_reset_hard_failed(w)
       /\ UNCHANGED <<config, aux, notes, tally, submit, queue, queued_items, queue_file, temp_copy_queue,
                      llm, crashes, put_order, dequeued, returned>>

\* process_review: self.temp_copy_queue.put(temp_copy_info, block=True)
process_review_put ==
    \E w \in SetupWorkers :
       /\ setup[w].pc = "put"
       /\ ~TempCopyQueue_full(temp_copy_queue)
       /\ LET s == setup[w]
              commit_hash == commit_hashes(s.request)[s.i]
              temp_copy_info == [temp_path |-> temp_copy_path(w, commit_hash),
                                 review_id |-> s.request.review_id,
                                 patch_num |-> s.i,
                                 commit_hash |-> commit_hash]
          IN  /\ temp_copy_queue' = Append(temp_copy_queue, temp_copy_info)
              /\ setup' = [setup EXCEPT ![w] = NextPatch(s, s.skipped)]
              /\ emitted' = EmittedAfter(s, s.skipped)
       /\ unfinished_tasks' = unfinished_tasks + 1
       /\ UNCHANGED <<config, aux, notes, marked, reviews, submit, queue, queued_items, queue_file, llm,
                      temp_dirs, crashes, put_order, dequeued, returned>>

(***************************************************************************)
(* LLMWorker.worker_loop, process_temp_copy and _run_claude_review.        *)
(***************************************************************************)
\* worker_loop: temp_copy_info = temp_copy_queue.get(timeout=1)
TempCopyQueue_get ==
    \E k \in LLMWorkers :
       /\ llm[k].pc = "idle"
       /\ temp_copy_queue # << >>
       /\ llm' = [llm EXCEPT ![k] = [pc |-> "run",
                                     info |-> QueueGet(temp_copy_queue).item,
                                     attempt |-> 1, results |-> << >>,
                                     flag |-> None]]
       /\ temp_copy_queue' = QueueGet(temp_copy_queue).rest
       /\ UNCHANGED <<config, aux, notes, tally, reviews, submit, queue, queued_items, queue_file, setup,
                      temp_dirs, crashes, put_order, dequeued, returned, emitted>>

\* a loop that goes on after every failed attempt
AttemptsLeft_always(attempt) == TRUE

\* for attempt in range(claude_retries): the loop goes on after a failed attempt
\* while attempts are left
AttemptsLeft(attempt) == attempt < config.claude_retries

\* a worker that records the start in the first attempt of every patch
LLMStart_any(m, info, attempt) ==
    IF attempt = 1 THEN set_llm_start_time(m, info.review_id) ELSE m

\* _run_claude_review, first statement of its try block:
\* if attempt == 1 and patch_num == 1: set_llm_start_time(review_id)
LLMStart(m, info, attempt) ==
    IF attempt = 1 /\ info.patch_num = 1
    THEN set_llm_start_time(m, info.review_id)
    ELSE m

\* process_temp_copy: one attempt, _run_claude_review(..., attempt).
\*  - it returns True: the loop breaks, mark_patch_complete(..., True);
\*  - it returns False (exit code, timeout, exception inside its try block):
\*    the next attempt, or after the last one mark_patch_complete(..., False);
\*  - it raises (making the patch directory or copying the prompt directory
\*    fails, outside its try block): the exception leaves process_temp_copy.
process_temp_copy ==
    \E k \in LLMWorkers :
       /\ llm[k].pc = "run"
       /\ LET review_id == llm[k].info.review_id
              patch_num == llm[k].info.patch_num
              started == LLMStart(reviews, llm[k].info, llm[k].attempt)
          IN  \/ /\ reviews' = mark_patch_complete(started, review_id, patch_num, TRUE)
                 /\ marked' = [marked EXCEPT ![review_id][patch_num] = @ + 1]
                 /\ llm' = [llm EXCEPT ![k].pc = "finally",
                                       ![k].results = Append(@, "True"),
                                       ![k].flag = "True"]
              \/ /\ AttemptsLeft(llm[k].attempt)
                 /\ reviews' = started
                 /\ llm' = [llm EXCEPT ![k].attempt = llm[k].attempt + 1,
                                       ![k].results = Append(@, "False")]
                 /\ UNCHANGED marked
              \/ /\ ~AttemptsLeft(llm[k].attempt)
                 /\ reviews' = mark_patch_complete(started, review_id, patch_num, FALSE)
                 /\ marked' = [marked EXCEPT ![review_id][patch_num] = @ + 1]
                 /\ llm' = [llm EXCEPT ![k].pc = "finally",
                                       ![k].results = Append(@, "False"),
                                       ![k].flag = "False"]
              \/ /\ llm' = [llm EXCEPT ![k].pc = "finally",
                                       ![k].results = Append(@, "raised")]
                 /\ UNCHANGED <<reviews, marked>>
       /\ UNCHANGED <<config, aux, notes, unfinished_tasks, submit, queue, queued_items,
                      queue_file, setup, temp_copy_queue, temp_dirs, crashes,
                      put_order, dequeued, returned, emitted>>

\* worker_loop, finally: remove_temp_copy(temp_path) (keep_temp_trees is off)
\* and temp_copy_queue.task_done()
worker_loop_finally ==
    \E k \in LLMWorkers :
       /\ llm[k].pc = "finally"
       /\ temp_dirs' = remove_temp_copy(temp_dirs, llm[k].info.temp_path)
       /\ unfinished_tasks' = unfinished_tasks - 1
       /\ llm' = [llm EXCEPT ![k] = IdleLLM]
       /\ UNCHANGED <<config, aux, notes, marked, reviews, submit, queue, queued_items,
                      queue_file, setup, temp_copy_queue, crashes, put_order,
                      dequeued, returned, emitted>>

(***************************************************************************)
(* The process is killed and started again: every thread and every         *)
(* in-memory queue is gone, the files stay.  ReviewQueue.__init__ runs     *)
(* load_queue and the worker threads start waiting.                        *)
(***************************************************************************)
\* load_queue: every item of queue.json goes to self.queue and self.queued_items
load_queue(file) == [queue |-> file, queued_items |-> file]

crash_restart ==
    /\ crashes < MaxCrashes
    /\ crashes' = crashes + 1
    /\ queue' = load_queue(queue_file).queue
    /\ queued_items' = load_queue(queue_file).queued_items
    /\ submit' = [r \in DOMAIN submit |-> [submit[r] EXCEPT !.pc = "done"]]
    /\ setup' = [w \in SetupWorkers |-> IdleSetup]
    /\ temp_copy_queue' = << >>
    /\ llm' = [k \in LLMWorkers |-> IdleLLM]
    /\ put_order' = ReviewIds(load_queue(queue_file).queue)
    /\ dequeued' = << >>
    /\ emitted' = {}
    /\ unfinished_tasks' = 0
    /\ UNCHANGED <<config, aux, notes, marked, reviews, queue_file, temp_dirs, returned>>

(***************************************************************************)
(* The start of the service: AirService.__init__ creates the WorkerPool,   *)
(* WorkerPool.start creates one SetupWorker and one thread per work tree   *)
(* and one thread per LLM worker, and every thread calls its target.  A    *)
(* call binds its arguments to the parameters of the callee as Python      *)
(* does; a call that cannot be bound raises TypeError.                     *)
(***************************************************************************)
\* the largest [air] max_work_trees and max_claude_runs the service is
\* started with
BootWorkTrees == 3
BootClaudeRuns == 3

\* values passed in the calls: an object of the service, or an integer
Obj(name) == [obj |-> name, n |-> 0]
Num(n) == [obj |-> "int", n |-> n]

Min(a, b) == IF a < b THEN a ELSE b

\* no keyword arguments; the frame of a call that was not made
NoFrame == [name \in {} |-> Obj("None")]

\* func(*args, **kwargs) for def func(self, params...), the last 'defaults'
\* parameters having a default value: the frame of the call, or TypeError for
\* too many positional arguments, an unexpected keyword, an argument given
\* twice, or a missing required argument
Bind(params, defaults, args, kwargs) ==
    LET names == Range(params)
        positional == {params[k] : k \in 1..Min(Len(args), Len(params))}
        required == {params[k] : k \in 1..(Len(params) - defaults)}
        given == positional \cup DOMAIN kwargs
    IN  IF \/ Len(args) > Len(params)
           \/ ~(DOMAIN kwargs \subseteq names)
           \/ positional \cap DOMAIN kwargs # {}
           \/ ~(required \subseteq given)
        THEN [raised |-> "TypeError", frame |-> NoFrame]
        ELSE [raised |-> None,
              frame |-> [name \in given |->
                           IF name \in DOMAIN kwargs
                           THEN kwargs[name]
                           ELSE args[CHOOSE k \in DOMAIN params : params[k] = name]]]

\* def __init__(self, num_setup_workers, num_llm_workers, config, storage,
\*              llm_worker, review_queue, temp_copy_queue, worktree_mgr,
\*              patchwork=None)
WorkerPool_init_params ==
    <<"num_setup_workers", "num_llm_workers", "config", "storage", "llm_worker",
      "review_queue", "temp_copy_queue", "worktree_mgr", "patchwork">>

\* def __init__(self, config, worktree_mgr, storage, temp_copy_queue,
\*              patchwork=None)
SetupWorker_init_params ==
    <<"config", "worktree_mgr", "storage", "temp_copy_queue", "patchwork">>

\* def worker_loop(self, worker_id, wt_id, review_queue)
SetupWorker_worker_loop_params == <<"worker_id", "wt_id", "review_queue">>

\* def worker_loop(self, worker_id, temp_copy_queue)
LLMWorker_worker_loop_params == <<"worker_id", "temp_copy_queue">>

\* AirService.__init__: WorkerPool(num_setup_workers=..., num_llm_workers=...,
\* setup_worker=..., llm_worker=..., review_queue=..., temp_copy_queue=...,
\* worktree_mgr=...)
AirService_WorkerPool_call ==
    Bind(WorkerPool_init_params, 1, << >>,
         [num_setup_workers |-> Num(config.max_work_trees),
          num_llm_workers |-> Num(config.max_claude_runs),
          setup_worker |-> Obj("setup_worker"),
          llm_worker |-> Obj("llm_worker"),
          review_queue |-> Obj("queue"),
          temp_copy_queue |-> Obj("temp_copy_queue"),
          worktree_mgr |-> Obj("worktree_mgr")])

\* WorkerPool.start: SetupWorker(self.config, self.worktree_mgr, self.storage,
\* self.temp_copy_queue, wt_id, self.patchwork), wt_id = i + 1
WorkerPool_SetupWorker_call(i) ==
    Bind(SetupWorker_init_params, 1,
         <<Obj("config"), Obj("worktree_mgr"), Obj("storage"),
           Obj("temp_copy_queue"), Num(i + 1), Obj("patchwork")>>,
         NoFrame)

\* the threads WorkerPool.start makes: Thread(target=setup_worker.worker_loop,
\* args=(i + 1, self.review_queue)) and Thread(target=self.llm_worker.worker_loop,
\* args=(i + 1, self.temp_copy_queue))
SetupThread(i) ==
    [name |-> <<"Setup", i + 1>>, target |-> SetupWorker_worker_loop_params,
     args |-> <<Num(i + 1), Obj("review_queue")>>, state |-> "created",
     frame |-> NoFrame]

LLMThread(i) ==
    [name |-> <<"LLM", i + 1>>, target |-> LLMWorker_worker_loop_params,
     args |-> <<Num(i + 1), Obj("temp_copy_queue")>>, state |-> "created",
     frame |-> NoFrame]

\* the service is running (the request pipeline above): nothing left to start
BootIdle == [pc |-> "running", i |-> 0, threads |-> {}]

\* the places the start is entered at: the constructor of the service; start()
\* of a pool that was constructed; the threads start() makes, before they run
BootEntries ==
    {[pc |-> "AirService", i |-> 0, threads |-> {}],
     [pc |-> "start", i |-> 0, threads |-> {}],
     [pc |-> "threads", i |-> 0,
      threads |-> {SetupThread(i) : i \in 0..(config.max_work_trees - 1)}
                  \cup {LLMThread(i) : i \in 0..(config.max_claude_runs - 1)}]}

\* AirService.__init__ up to self.worker_pool.start()
AirService_init ==
    /\ boot.pc = "AirService"
    /\ boot' = [boot EXCEPT !.pc = IF AirService_WorkerPool_call.raised = None
                                   THEN "start"
                                   ELSE AirService_WorkerPool_call.raised]
    /\ UNCHANGED <<service_vars, remote, store, rq, api, front, derive, snap>>

\* WorkerPool.start: one pass of the loop over range(num_setup_workers), then
\* of the loop over range(num_llm_workers)
WorkerPool_start ==
    /\ boot.pc = "start"
    /\ LET S == config.max_work_trees
           L == config.max_claude_runs
       IN  boot' =
             IF boot.i < S
             THEN IF WorkerPool_SetupWorker_call(boot.i).raised = None
                  THEN [boot EXCEPT !.i = boot.i + 1,
                                    !.threads = @ \cup {SetupThread(boot.i)}]
                  ELSE [boot EXCEPT !.pc = WorkerPool_SetupWorker_call(boot.i).raised]
             ELSE IF boot.i < S + L
                  THEN [boot EXCEPT !.i = boot.i + 1,
                                    !.threads = @ \cup {LLMThread(boot.i - S)}]
                  ELSE [boot EXCEPT !.pc = "threads"]
    /\ UNCHANGED <<service_vars, remote, store, rq, api, front, derive, snap>>

\* Thread.run: self._target(*self._args); an exception ends the thread
Thread_run ==
    /\ boot.pc \in {"start", "threads"}
    /\ \E t \in boot.threads :
          /\ t.state = "created"
          /\ LET call == Bind(t.target, 0, t.args, NoFrame)
                 ran == [t EXCEPT !.state = IF call.raised = None THEN "running"
                                            ELSE call.raised,
                                  !.frame = call.frame]
             IN  boot' = [boot EXCEPT !.threads = (@ \ {t}) \cup {ran}]
    /\ UNCHANGED <<service_vars, remote, store, rq, api, front, derive, snap>>

BootNext == AirService_init \/ WorkerPool_start \/ Thread_run

BootConfigs ==
    [max_work_trees : 1..BootWorkTrees, max_claude_runs : 1..BootClaudeRuns,
     claude_retries : {ClaudeRetries}]

(***************************************************************************)
(* WorkTreeManager.add_remote, called by the setup workers from            *)
(* _setup_remote.  The remotes belong to the main repository, which all    *)
(* work trees share; 'git remote get-url' and 'git remote add' are two     *)
(* commands, run one after the other under WorkTreeManager.lock.           *)
(***************************************************************************)
\* number of add_remote calls one setup worker makes in one behaviour
MaxRemoteCalls == 2

\* request['tree'] of the reviews
RemoteNames == {"net", "net-next"}

\* the setup workers that call add_remote
RemoteCallers == 1..MaxWorkTrees

\* no caller is inside add_remote, the repository has no remote yet.
\*   invoked: 'git remote add' commands run so far, per name
\*   clashed: those of them run while the remote existed
RemoteIdle ==
    [lock |-> 0, remotes |-> {},
     callers |-> [w \in RemoteCallers |->
                     [pc |-> "idle", name |-> None, result |-> None, calls |-> 0]],
     invoked |-> [name \in RemoteNames |-> 0],
     clashed |-> [name \in RemoteNames |-> 0]]

\* _setup_remote: self.worktree_mgr.add_remote(remote_name, remote_url)
add_remote_call ==
    \E w \in RemoteCallers, name \in RemoteNames :
       /\ remote.callers[w].pc \in {"idle", "returned"}
       /\ remote.callers[w].calls < MaxRemoteCalls
       /\ remote' = [remote EXCEPT
                       !.callers[w] = [pc |-> "lock", name |-> name,
                                       result |-> None, calls |-> @.calls + 1]]
       /\ UNCHANGED <<service_vars, boot, store, rq, api, front, derive, snap>>

\* a lock that is not taken: every caller goes on at once
WorkTreeLock_none(holder, w) == TRUE

\* with self.lock: the caller waits until no thread holds the lock
WorkTreeLock_free(holder, w) == holder = 0

add_remote_lock ==
    \E w \in RemoteCallers :
       /\ remote.callers[w].pc = "lock"
       /\ WorkTreeLock_free(remote.lock, w)
       /\ remote' = [remote EXCEPT !.lock = w, !.callers[w].pc = "get-url"]
       /\ UNCHANGED <<service_vars, boot, store, rq, api, front, derive, snap>>

\* git remote get-url <name>: exit code 0 if the remote exists; then add_remote
\* returns True (and the lock is released)
add_remote_get_url ==
    \E w \in RemoteCallers :
       /\ remote.callers[w].pc = "get-url"
       /\ remote' =
            IF remote.callers[w].name \in remote.remotes
            THEN [remote EXCEPT !.lock = 0, !.callers[w].pc = "returned",
                                !.callers[w].result = TRUE]
            ELSE [remote EXCEPT !.callers[w].pc = "add"]
       /\ UNCHANGED <<service_vars, boot, store, rq, api, front, derive, snap>>

\* git remote add <name> <url>, check=True: the command fails if the remote
\* exists, and may fail for a remote that does not exist (add_remote returns
\* False); otherwise the remote exists afterwards (add_remote returns True)
add_remote_add ==
    \E w \in RemoteCallers, success \in BOOLEAN :
       LET name == remote.callers[w].name
           exists == name \in remote.remotes
       IN  /\ remote.callers[w].pc = "add"
           /\ success => ~exists
           /\ remote' = [remote EXCEPT
                           !.lock = 0,
                           !.remotes = IF success THEN @ \cup {name} ELSE @,
                           !.callers[w].pc = "returned",
                           !.callers[w].result = success,
                           !.invoked[name] = @ + 1,
                           !.clashed[name] = IF exists THEN @ + 1 ELSE @]
           /\ UNCHANGED <<service_vars, boot, store, rq, api, front, derive, snap>>

RemoteNext ==
    \/ add_remote_call
    \/ add_remote_lock
    \/ add_remote_get_url
    \/ add_remote_add

(***************************************************************************)
(* ReviewStorage step by step.  An operation takes self.lock, reloads      *)
(* self.reviews from metadata.json, changes it, and save_metadata opens    *)
(* the file for writing (which empties it) and dumps self.reviews into it. *)
(* self.reviews is one attribute of the one storage object of the service. *)
(***************************************************************************)
\* number of threads that call the storage, and of calls per thread
StoreThreads == 2
MaxStoreCalls == 2
\* patch_count of the reviews the storage starts with
StorePatchCount == 3

\* the content of a JSON file: a value that loads, or text json.load rejects
\* (an empty or partly written file)
Valid(data) == [valid |-> TRUE, data |-> data]
Truncated == [valid |-> FALSE, data |-> << >>]

\* metadata.json when the threads start: two reviews in progress
StoredReviews ==
    [r \in 1..2 |-> [NewReview(r, "alice", [hash |-> <<"c1">>]) EXCEPT
                        !.status = "in-progress", !.patch_count = StorePatchCount]]

\* the calls the threads make
StoreCalls ==
    [op : {"mark_patch_complete"}, review_id : 1..2, success : BOOLEAN,
     count : {0}, status : {None}]
    \cup [op : {"set_patch_count"}, review_id : 1..2, success : {TRUE},
          count : {StorePatchCount + 1}, status : {None}]
    \cup [op : {"update_review_status"}, review_id : 1..2, success : {TRUE},
          count : {0}, status : {"in-progress"}]

\* the change a call makes to self.reviews
StoreApply(call, m) ==
    CASE call.op = "mark_patch_complete" ->
            mark_patch_complete(m, call.review_id, 0, call.success)
      [] call.op = "set_patch_count" ->
            set_patch_count(m, call.review_id, call.count)
      [] call.op = "update_review_status" ->
            update_review_status(m, call.review_id, call.status, None)

NoCall == [op |-> None, review_id |-> 0, success |-> TRUE, count |-> 0,
           status |-> None]

\* state: "up" while the storage works, "JSONDecodeError" when
\*        ReviewStorage.__init__ failed in load_metadata after a restart
\* history: marks counts the mark_patch_complete calls that returned, per
\*        review; expected is the map after the calls that returned, in the
\*        order they returned; before and writing are the map in the file and
\*        the map being written when the process was killed
StoreIdle ==
    [state |-> "up", lock |-> 0, reviews |-> StoredReviews,
     file |-> Valid(StoredReviews),
     threads |-> [t \in 1..StoreThreads |->
                     [pc |-> "idle", call |-> NoCall, calls |-> 0]],
     marks |-> [r \in 1..2 |-> 0], expected |-> StoredReviews,
     crashed |-> FALSE, before |-> StoredReviews, writing |-> StoredReviews]

\* a thread calls an operation of the storage
storage_call ==
    \E t \in 1..StoreThreads, call \in StoreCalls :
       /\ store.state = "up"
       /\ store.threads[t].pc = "idle"
       /\ store.threads[t].calls < MaxStoreCalls
       /\ store' = [store EXCEPT !.threads[t] = [pc |-> "lock", call |-> call,
                                                 calls |-> @.calls + 1]]
       /\ UNCHANGED <<service_vars, boot, remote, rq, api, front, derive, snap>>

\* a lock that is not taken
StorageLock_none(holder) == TRUE

\* with self.lock: the thread waits until no thread holds the lock
StorageLock_free(holder) == holder = 0

storage_lock ==
    \E t \in 1..StoreThreads :
       /\ store.threads[t].pc = "lock"
       /\ StorageLock_free(store.lock)
       /\ store' = [store EXCEPT !.lock = t, !.threads[t].pc = "load"]
       /\ UNCHANGED <<service_vars, boot, remote, rq, api, front, derive, snap>>

\* load_metadata: self.reviews = json.load(f); a file that does not load raises
\* JSONDecodeError, which only FileNotFoundError is caught for
load_metadata(file) ==
    IF file.valid THEN [raised |-> None, reviews |-> file.data]
    ELSE [raised |-> "JSONDecodeError", reviews |-> << >>]

\* under the lock: self.load_metadata(), then the change of self.reviews
storage_load ==
    \E t \in 1..StoreThreads :
       /\ store.threads[t].pc = "load"
       /\ LET loaded == load_metadata(store.file)
          IN  store' =
                IF loaded.raised = None
                THEN [store EXCEPT
                        !.reviews = StoreApply(store.threads[t].call, loaded.reviews),
                        !.threads[t].pc = "open"]
                ELSE [store EXCEPT !.lock = 0, !.threads[t].pc = loaded.raised]
       /\ UNCHANGED <<service_vars, boot, remote, rq, api, front, derive, snap>>

\* save_metadata: open(self.metadata_path, 'w') empties the file
storage_save_open ==
    \E t \in 1..StoreThreads :
       /\ store.threads[t].pc = "open"
       /\ store' = [store EXCEPT !.file = Truncated, !.threads[t].pc = "dump",
                                 !.before = IF store.file.valid
                                            THEN store.file.data ELSE @,
                                 !.writing = store.reviews]
       /\ UNCHANGED <<service_vars, boot, remote, rq, api, front, derive, snap>>

\* save_metadata: json.dump(self.reviews, f) and the file is closed; the lock
\* is released and the call returns
storage_save_dump ==
    \E t \in 1..StoreThreads :
       /\ store.threads[t].pc = "dump"
       /\ LET call == store.threads[t].call
          IN  store' = [store EXCEPT
                          !.file = Valid(store.reviews),
                          !.lock = 0,
                          !.threads[t].pc = "idle",
                          !.marks[call.review_id] =
                              IF call.op = "mark_patch_complete" THEN @ + 1 ELSE @,
                          !.expected = StoreApply(call, @)]
       /\ UNCHANGED <<service_vars, boot, remote, rq, api, front, derive, snap>>

\* the process is killed and started again: ReviewStorage.__init__ runs
\* load_metadata on the file as it is
storage_crash_restart ==
    /\ store.state = "up"
    /\ ~store.crashed
    /\ LET loaded == load_metadata(store.file)
       IN  store' = [store EXCEPT
                       !.state = IF loaded.raised = None THEN "up" ELSE loaded.raised,
                       !.lock = 0,
                       !.reviews = loaded.reviews,
                       !.threads = [t \in 1..StoreThreads |->
                                       [pc |-> "idle", call |-> NoCall,
                                        calls |-> MaxStoreCalls]],
                       !.crashed = TRUE]
    /\ UNCHANGED <<service_vars, boot, remote, rq, api, front, derive, snap>>

StoreNext ==
    \/ storage_call
    \/ storage_lock
    \/ storage_load
    \/ storage_save_open
    \/ storage_save_dump

StoreCrashNext == StoreNext \/ storage_crash_restart

(***************************************************************************)
(* ReviewQueue step by step, with the writes of queue.json.  save_queue    *)
(* opens the file for writing (which empties it) and dumps queued_items    *)
(* into it; either step can fail with an OSError.                          *)
(***************************************************************************)
\* number of threads that put one item each
QueuePutters == 2
\* number of get calls of the one thread that takes items
MaxQueueGets == 2

\* the threads: 1..QueuePutters put, the thread after them gets
QueueGetter == QueuePutters + 1
QueueThreads == 1..QueueGetter

\* queue.json when the service is started: no file or an empty list, a list
\* with one item, or a file that is not a serialized list
QueueFiles == {Valid(<< >>), Valid(<<QueuePutters + 1>>), Truncated}

\* state: "init" before ReviewQueue.__init__, "up" after it, "JSONDecodeError"
\*        when it failed in load_queue
\* threads: pc, the item put or taken (0: none), the exception that left the
\*        call, and whether a write of the file failed in the call
\* history: started, the items whose put has begun; put_returned, the items
\*        whose put has returned; taken, the items queue.get has handed out;
\*        got, the items whose get has returned
RqThread == [pc |-> "idle", item |-> 0, raised |-> None, save_failed |-> FALSE,
             gets |-> 0]

RqInit(file) ==
    [state |-> "init", lock |-> 0, queue |-> << >>, queued_items |-> << >>,
     file |-> file, threads |-> [t \in QueueThreads |-> RqThread],
     crashed |-> FALSE, started |-> {}, put_returned |-> {}, taken |-> {},
     got |-> {}]

RqIdle == [RqInit(Valid(<< >>)) EXCEPT !.state = "up"]

\* load_queue on a file that loads: the items go to the queue and to
\* queued_items; on a file that does not load json.load raises
\* JSONDecodeError, which only FileNotFoundError is caught for
load_queue_file(file) ==
    IF file.valid
    THEN [raised |-> None, queue |-> load_queue(file.data).queue,
          queued_items |-> load_queue(file.data).queued_items]
    ELSE [raised |-> "JSONDecodeError", queue |-> << >>, queued_items |-> << >>]

\* ReviewQueue.__init__: empty queue, empty list, then load_queue
ReviewQueue_init ==
    /\ rq.state = "init"
    /\ LET loaded == load_queue_file(rq.file)
       IN  rq' = [rq EXCEPT
                    !.state = IF loaded.raised = None THEN "up" ELSE loaded.raised,
                    !.queue = loaded.queue,
                    !.queued_items = loaded.queued_items]
    /\ UNCHANGED <<service_vars, boot, remote, store, api, front, derive, snap>>

\* put, first half: self.queue.put(item)
rq_put_enqueue ==
    \E t \in 1..QueuePutters :
       /\ rq.state = "up"
       /\ rq.threads[t].pc = "idle"
       /\ t \notin rq.started
       /\ rq' = [rq EXCEPT !.queue = Append(@, t), !.started = @ \cup {t},
                           !.threads[t].pc = "lock", !.threads[t].item = t]
       /\ UNCHANGED <<service_vars, boot, remote, store, api, front, derive, snap>>

\* put, under the lock: self.queued_items.append(item), then save_queue
rq_put_lock ==
    \E t \in 1..QueuePutters :
       /\ rq.threads[t].pc = "lock"
       /\ rq.lock = 0
       /\ rq' = [rq EXCEPT !.lock = t, !.queued_items = Append(@, t),
                           !.threads[t].pc = "open"]
       /\ UNCHANGED <<service_vars, boot, remote, store, api, front, derive, snap>>

\* get, first half: item = self.queue.get(timeout)
rq_get_dequeue ==
    /\ rq.state = "up"
    /\ rq.threads[QueueGetter].pc = "idle"
    /\ rq.threads[QueueGetter].gets < MaxQueueGets
    /\ rq.queue # << >>
    /\ rq' = [rq EXCEPT !.queue = QueueGet(@).rest,
                        !.threads[QueueGetter].pc = "lock",
                        !.threads[QueueGetter].item = QueueGet(rq.queue).item,
                        !.taken = @ \cup {QueueGet(rq.queue).item},
                        !.threads[QueueGetter].gets = @ + 1]
    /\ UNCHANGED <<service_vars, boot, remote, store, api, front, derive, snap>>

\* get, under the lock: if item in self.queued_items it is removed and
\* save_queue follows; otherwise get returns
rq_get_lock ==
    /\ rq.threads[QueueGetter].pc = "lock"
    /\ rq.lock = 0
    /\ rq' = IF rq.threads[QueueGetter].item \in Range(rq.queued_items)
             THEN [rq EXCEPT !.lock = QueueGetter,
                             !.queued_items = ListRemove(@, rq.threads[QueueGetter].item),
                             !.threads[QueueGetter].pc = "open"]
             ELSE [rq EXCEPT !.threads[QueueGetter].pc = "idle",
                             !.got = @ \cup {rq.threads[QueueGetter].item}]
    /\ UNCHANGED <<service_vars, boot, remote, store, api, front, derive, snap>>

\* an exception that is caught and dropped: the call returns normally
Swallow(error) == None

\* an exception that nothing catches leaves the call
Raise(error) == error

\* put and get have no handler for the OSError of save_queue ('with self.lock'
\* releases the lock, 'except Empty' of get does not match)
SaveFailed(thread, error) ==
    [thread EXCEPT !.pc = "idle", !.raised = Raise(error), !.save_failed = TRUE]

\* save_queue: open(self.queue_path, 'w') empties the file, or fails
rq_save_open ==
    \E t \in QueueThreads, ok \in BOOLEAN :
       /\ rq.threads[t].pc = "open"
       /\ rq' = IF ok
                THEN [rq EXCEPT !.file = Truncated, !.threads[t].pc = "dump"]
                ELSE [rq EXCEPT !.lock = 0,
                                !.threads[t] = SaveFailed(@, "OSError")]
       /\ UNCHANGED <<service_vars, boot, remote, store, api, front, derive, snap>>

\* save_queue: json.dump(self.queued_items, f) and the file is closed, or the
\* write fails and leaves the file incomplete; the lock is released
rq_save_dump ==
    \E t \in QueueThreads, ok \in BOOLEAN :
       /\ rq.threads[t].pc = "dump"
       /\ rq' = IF ok
                THEN [rq EXCEPT !.file = Valid(rq.queued_items), !.lock = 0,
                                !.threads[t].pc = "idle",
                                !.put_returned = IF t = QueueGetter THEN @
                                                 ELSE @ \cup {rq.threads[t].item},
                                !.got = IF t = QueueGetter
                                        THEN @ \cup {rq.threads[t].item} ELSE @]
                ELSE [rq EXCEPT !.lock = 0,
                                !.threads[t] = SaveFailed(@, "OSError")]
       /\ UNCHANGED <<service_vars, boot, remote, store, api, front, derive, snap>>

\* the process is killed: a new process constructs the queue from the file
rq_crash ==
    /\ rq.state = "up"
    /\ ~rq.crashed
    /\ rq' = [RqInit(rq.file) EXCEPT !.crashed = TRUE, !.started = rq.started,
                                      !.put_returned = rq.put_returned,
                                      !.taken = rq.taken, !.got = rq.got]
    /\ UNCHANGED <<service_vars, boot, remote, store, api, front, derive, snap>>

QueueFileNext ==
    \/ ReviewQueue_init
    \/ rq_put_enqueue
    \/ rq_put_lock
    \/ rq_get_dequeue
    \/ rq_get_lock
    \/ rq_save_open
    \/ rq_save_dump
    \/ rq_crash

(***************************************************************************)
(* ReviewStorage called one operation after another on one review, with    *)
(* the clock: every call reads datetime.utcnow() at a later time than the  *)
(* call before it.                                                         *)
(***************************************************************************)
\* number of calls of the storage in one behaviour
MaxApiCalls == 4
\* the largest count passed to set_patch_count
ApiPatchCount == 2

\* metadata.json when the calls start: one review, just created
ApiReviews == <<NewReview(1, "alice", [hash |-> <<"c1">>])>>

\* the review ids of the calls: the review of metadata.json, and an id that
\* is not in it
ApiReviewIds == {1, 2}

NoApiCall == [op |-> None, review_id |-> 1, status |-> None, message |-> None,
              count |-> 0, success |-> TRUE]

\* before: the map before the last call, m: the map after it
ApiIdle == [tick |-> 1, before |-> ApiReviews, m |-> ApiReviews,
            call |-> NoApiCall]

\* the state after a call that turned the map into m
ApiReturn(call, m) ==
    [tick |-> api.tick + 1, before |-> api.m, m |-> m, call |-> call]

api_update_review_status ==
    /\ api.tick <= MaxApiCalls
    /\ \E review_id \in ApiReviewIds,
          status \in {"in-progress", "done", "error"},
          message \in {None, "Failed to setup git remote"} :
          api' = ApiReturn([NoApiCall EXCEPT !.op = "update_review_status",
                                             !.review_id = review_id,
                                             !.status = status,
                                             !.message = message],
                           update_review_status(api.m, review_id, status, message))
    /\ UNCHANGED <<service_vars, boot, remote, store, rq, front, derive, snap>>

api_set_patch_count ==
    /\ api.tick <= MaxApiCalls
    /\ \E review_id \in ApiReviewIds, count \in 0..ApiPatchCount :
          api' = ApiReturn([NoApiCall EXCEPT !.op = "set_patch_count",
                                             !.review_id = review_id,
                                             !.count = count],
                           set_patch_count(api.m, review_id, count))
    /\ UNCHANGED <<service_vars, boot, remote, store, rq, front, derive, snap>>

api_set_llm_start_time ==
    /\ api.tick <= MaxApiCalls
    /\ \E review_id \in ApiReviewIds :
          api' = ApiReturn([NoApiCall EXCEPT !.op = "set_llm_start_time",
                                             !.review_id = review_id],
                           set_llm_start_time(api.m, review_id))
    /\ UNCHANGED <<service_vars, boot, remote, store, rq, front, derive, snap>>

api_mark_patch_complete ==
    /\ api.tick <= MaxApiCalls
    /\ \E review_id \in ApiReviewIds, success \in BOOLEAN :
          api' = ApiReturn([NoApiCall EXCEPT !.op = "mark_patch_complete",
                                             !.review_id = review_id,
                                             !.success = success],
                           mark_patch_complete(api.m, review_id, 1, success))
    /\ UNCHANGED <<service_vars, boot, remote, store, rq, front, derive, snap>>

StorageApiNext ==
    \/ api_update_review_status
    \/ api_set_patch_count
    \/ api_set_llm_start_time
    \/ api_mark_patch_complete

(***************************************************************************)
(* AirService.submit_review as a whole, for every shape of the request     *)
(* data: validation, create_review, the request and queue.put.  A key of   *)
(* the data is absent, present with a value that is false in Python        *)
(* (None, 0, '', []), or present with a value.                             *)
(***************************************************************************)
Absent == [given |-> FALSE, value |-> << >>]
Empty == [given |-> TRUE, value |-> << >>]
Given(v) == [given |-> TRUE, value |-> <<v>>]

\* 'key' in data and data['key']
Has(data, key) == data[key].given /\ data[key].value # << >>

OriginKeys == {"patchwork_series_id", "patches", "hash"}

\* the request data a client may send
FrontData ==
    [patchwork_series_id : {Absent, Empty, Given("7")},
     patches : {Absent, Empty, Given("diff")},
     hash : {Absent, Empty, Given("c1")},
     tree : {Absent, Empty, Given("net")}]

\* sum([has_patchwork, has_patches, has_hash])
input_count(data) == Cardinality({key \in OriginKeys : Has(data, key)})

\* a validation that lets several origins through
InputCount_some(count) == count >= 1

\* if input_count != 1: raise ValueError
InputCount_valid(count) == count = 1

\* the validation of submit_review: the error it raises, None if it passes
Validate(data) ==
    IF ~InputCount_valid(input_count(data))
    THEN "Exactly one of patchwork_series_id, patches, or hash must be provided"
    ELSE IF ~Has(data, "tree")
         THEN "tree is required"
         ELSE None

\* the request for the queue: a dict with the key of the origin that was given
\* (no patchwork client is configured, so a series carries no patch_count)
QueueRequest(review_id, token, data) ==
    LET origin == IF Has(data, "patchwork_series_id") THEN "patchwork_series_id"
                  ELSE IF Has(data, "patches") THEN "patches"
                  ELSE "hash"
        base == [review_id |-> review_id, token |-> token,
                 tree |-> data.tree.value]
        request == (origin :> data[origin].value) @@ base
    IN  IF origin = "patchwork_series_id"
        THEN request
        ELSE ("patch_count" :> Len(data[origin].value)) @@ request

\* metadata.json and the queue when the call is made: one review, queued
FrontReviews == <<NewReview(1, "alice", [hash |-> Given("c1")])>>
FrontQueue == <<QueueRequest(1, "alice", [patchwork_series_id |-> Absent,
                                         patches |-> Absent,
                                         hash |-> Given("c1"),
                                         tree |-> Given("net")])>>

NoData == [patchwork_series_id |-> Absent, patches |-> Absent, hash |-> Absent,
           tree |-> Absent]

FrontCall(data) ==
    [pc |-> "call", data |-> data, reviews |-> FrontReviews,
     queue |-> FrontQueue, raised |-> None]

FrontIdle == [FrontCall(NoData) EXCEPT !.pc = "idle"]

front_submit_review ==
    /\ front.pc = "call"
    /\ LET error == Validate(front.data)
           review_id == Len(front.reviews) + 1
       IN  \/ /\ error # None
              /\ front' = [front EXCEPT !.pc = "raised", !.raised = error]
           \/ /\ error = None
              /\ front' = [front EXCEPT
                    !.pc = "returned",
                    !.reviews = Append(@, NewReview(review_id, "alice", front.data)),
                    !.queue = Append(@, QueueRequest(review_id, "alice", front.data))]
    /\ UNCHANGED <<service_vars, boot, remote, store, rq, api, derive, snap>>

FrontNext == front_submit_review

(***************************************************************************)
(* AirService.get_review and the queue position it reports.  An Optional   *)
(* result is a set: empty for None, one element otherwise.                 *)
(***************************************************************************)
\* the token database of TokenAuth
TokenDb == [alice |-> [superuser |-> FALSE], bob |-> [superuser |-> FALSE],
            root |-> [superuser |-> TRUE]]

\* TokenAuth.is_superuser
is_superuser(token) ==
    IF token \notin DOMAIN TokenDb THEN FALSE ELSE TokenDb[token].superuser

\* ReviewStorage.get_review_metadata
get_review_metadata(m, review_id) ==
    IF review_id \in DOMAIN m THEN {m[review_id]} ELSE {}

\* AirService.get_review: None unless the review exists and metadata['token']
\* is the token of the caller
get_review(m, review_id, token) ==
    {metadata \in get_review_metadata(m, review_id) : metadata.token = token}

\* ReviewQueue.get_position
get_position(items, review_id) ==
    LET found == {i \in DOMAIN items : items[i].review_id = review_id}
    IN  IF found = {} THEN {}
        ELSE {(CHOOSE i \in found : \A j \in found : i <= j) - 1}

RECURSIVE PatchCountSum(_, _)
\* patch_count += self.queued_items[i].get('patch_count', 1) for i in range(n)
PatchCountSum(items, n) ==
    IF n = 0 THEN 0 ELSE PatchCountSum(items, n - 1) + items[n].patch_count

\* ReviewQueue.get_patch_count_ahead: 0 when the review is not in the list
get_patch_count_ahead(items, review_id) ==
    LET position == get_position(items, review_id)
    IN  IF position = {} THEN {0}
        ELSE {PatchCountSum(items, CHOOSE i \in position : TRUE)}

(***************************************************************************)
(* SetupWorker._get_commit_hashes for a hash origin, one call: the range,  *)
(* the check of the commit, git rev-list and the order of the patches.     *)
(***************************************************************************)
\* the revisions a submitter can name
DeriveRevisions == {"c0"} \cup Range(History)

\* the values of 'hash': one commit of the history, or a range between two
\* revisions in either order
DeriveHashes ==
    {<<rev>> : rev \in Range(History)}
        \cup {<<left, "..", right>> : left \in DeriveRevisions, right \in DeriveRevisions}

DeriveIdle == [pc |-> "idle", wt_id |-> 0, hash |-> << >>, git_range |-> << >>,
               commit_hashes |-> << >>]

\* _get_commit_hashes(wt_id, request) is called
DeriveCall(wt_id, hash_str) ==
    [pc |-> "call", wt_id |-> wt_id, hash |-> hash_str, git_range |-> << >>,
     commit_hashes |-> << >>]

\* lines 196-201: the range of the hash
derive_git_range ==
    /\ derive.pc = "call"
    /\ derive' = [derive EXCEPT !.pc = "exists", !.git_range = GitRange(derive.hash)]
    /\ UNCHANGED <<service_vars, boot, remote, store, rq, api, front, snap>>

\* lines 204-208: the commit to check is in the work tree, or it is not and
\* _get_commit_hashes returns None
derive_check_commit_exists ==
    /\ derive.pc = "exists"
    /\ \/ derive' = [derive EXCEPT !.pc = "rev-list"]
       \/ derive' = [derive EXCEPT !.pc = "not found"]
    /\ UNCHANGED <<service_vars, boot, remote, store, rq, api, front, snap>>

\* line 211: _range_to_hashes returns the list, or git rev-list fails and
\* subprocess.run raises
derive_range_to_hashes ==
    /\ derive.pc = "rev-list"
    /\ \/ derive' = [derive EXCEPT !.pc = "return",
                                   !.commit_hashes = range_to_hashes(derive.git_range)]
       \/ derive' = [derive EXCEPT !.pc = "raised"]
    /\ UNCHANGED <<service_vars, boot, remote, store, rq, api, front, snap>>

DeriveNext ==
    \/ derive_git_range
    \/ derive_check_commit_exists
    \/ derive_range_to_hashes

(***************************************************************************)
(* The temp copies of the work trees, counted.  Every setup worker makes   *)
(* one temp copy after another (setup_worker.py:113-135), the temp copy    *)
(* queue holds them, every LLM worker takes one, works on it and removes   *)
(* it (llm_worker.py:43-68).  keep_temp_trees is not set.                  *)
(***************************************************************************)
\* max_claude_runs of the largest configuration
SnapClaudeRuns == 2
\* number of temp copies made in one behaviour
MaxSnapshots == 10

SnapConfigs ==
    [max_work_trees : 1..MaxWorkTrees, max_claude_runs : 1..SnapClaudeRuns]

SnapIdle == [config |-> [max_work_trees |-> 0, max_claude_runs |-> 0],
             setup |-> << >>, queue |-> 0, llm |-> << >>, dirs |-> 0, made |-> 0]

\* the service has started: every setup worker is in its loop over the
\* commits, every LLM worker waits on the temp copy queue
SnapStart(air_config) ==
    [config |-> air_config,
     setup |-> [w \in 1..air_config.max_work_trees |-> "loop"],
     queue |-> 0,
     llm |-> [k \in 1..air_config.max_claude_runs |-> "get"],
     dirs |-> 0, made |-> 0]

\* line 114: create_temp_copy makes a directory
snap_create_temp_copy ==
    \E w \in DOMAIN snap.setup :
       /\ snap.setup[w] = "loop"
       /\ snap.made < MaxSnapshots
       /\ snap' = [snap EXCEPT !.setup[w] = "reset", !.dirs = @ + 1, !.made = @ + 1]
       /\ UNCHANGED <<service_vars, boot, remote, store, rq, api, front, derive>>

\* lines 117-121: git_reset_hard succeeds, or it fails and the temp copy is
\* removed
snap_git_reset_hard ==
    \E w \in DOMAIN snap.setup :
       /\ snap.setup[w] = "reset"
       /\ \/ snap' = [snap EXCEPT !.setup[w] = "put"]
          \/ snap' = [snap EXCEPT !.setup[w] = "loop", !.dirs = @ - 1]
       /\ UNCHANGED <<service_vars, boot, remote, store, rq, api, front, derive>>

\* lines 124-133: put(block=True) returns when the queue has room
snap_put ==
    \E w \in DOMAIN snap.setup :
       /\ snap.setup[w] = "put"
       /\ snap.queue < MaxTempCopies(snap.config.max_claude_runs)
       /\ snap' = [snap EXCEPT !.setup[w] = "loop", !.queue = @ + 1]
       /\ UNCHANGED <<service_vars, boot, remote, store, rq, api, front, derive>>

\* llm_worker.py:46: get returns a temp copy
snap_get ==
    \E k \in DOMAIN snap.llm :
       /\ snap.llm[k] = "get"
       /\ snap.queue > 0
       /\ snap' = [snap EXCEPT !.llm[k] = "process", !.queue = @ - 1]
       /\ UNCHANGED <<service_vars, boot, remote, store, rq, api, front, derive>>

\* llm_worker.py:52-68: process_temp_copy returns or raises, the finally block
\* removes the temp copy
snap_finally ==
    \E k \in DOMAIN snap.llm :
       /\ snap.llm[k] = "process"
       /\ snap' = [snap EXCEPT !.llm[k] = "get", !.dirs = @ - 1]
       /\ UNCHANGED <<service_vars, boot, remote, store, rq, api, front, derive>>

SnapNext ==
    \/ snap_create_temp_copy
    \/ snap_git_reset_hard
    \/ snap_put
    \/ snap_get
    \/ snap_finally

\* the request pipeline is modelled with the rest of the service at rest
AuxIdle ==
    /\ boot = BootIdle
    /\ remote = RemoteIdle
    /\ store = StoreIdle
    /\ rq = RqIdle
    /\ api = ApiIdle
    /\ front = FrontIdle
    /\ derive = DeriveIdle
    /\ snap = SnapIdle

Running ==
    \/ submit_review
    \/ ReviewQueue_put_enqueue
    \/ ReviewQueue_put_persist
    \/ ReviewQueue_get_dequeue
    \/ ReviewQueue_get_persist
    \/ process_review_start
    \/ process_review_setup
    \/ process_review_masked
    \/ process_review_temp_copy
    \/ process_review_put
    \/ TempCopyQueue_get
    \/ process_temp_copy
    \/ worker_loop_finally

\* the service runs and is never killed
Next == Running

AirConfig == [max_work_trees |-> MaxWorkTrees, max_claude_runs |-> MaxClaudeRuns,
              claude_retries |-> ClaudeRetries]

Init == InitWith(AirConfig) /\ AuxIdle

Spec == Init /\ [][Next]_vars

\* the service may be killed and started again
NextCrash == Running \/ crash_restart

CrashConfig == [max_work_trees |-> CrashWorkTrees, max_claude_runs |-> MaxClaudeRuns,
                claude_retries |-> CrashRetries]

InitCrash == InitWith(CrashConfig) /\ AuxIdle

CrashSpec == InitCrash /\ [][NextCrash]_vars

\* the service runs, is never killed, and every thread that can take a step
\* eventually takes it (submissions may stop at any time)
FairSpec ==
    /\ Init
    /\ [][Next]_vars
    /\ WF_vars(ReviewQueue_put_enqueue)
    /\ WF_vars(ReviewQueue_put_persist)
    /\ WF_vars(ReviewQueue_get_dequeue)
    /\ WF_vars(ReviewQueue_get_persist)
    /\ WF_vars(process_review_start)
    /\ WF_vars(process_review_setup)
    /\ WF_vars(process_review_masked)
    /\ WF_vars(process_review_temp_copy)
    /\ WF_vars(process_review_put)
    /\ WF_vars(TempCopyQueue_get)
    /\ WF_vars(process_temp_copy)
    /\ WF_vars(worker_loop_finally)

\* the start of the service, for every configuration and place of entry
BootInit ==
    /\ \E air_config \in BootConfigs : InitWith(air_config)
    /\ boot \in BootEntries
    /\ remote = RemoteIdle
    /\ store = StoreIdle
    /\ rq = RqIdle
    /\ api = ApiIdle
    /\ front = FrontIdle
    /\ derive = DeriveIdle
    /\ snap = SnapIdle

BootSpec == BootInit /\ [][BootNext]_vars

\* the setup workers call add_remote
RemoteSpec == Init /\ [][RemoteNext]_vars

\* threads call the storage; the process is never killed
StoreSpec == Init /\ [][StoreNext]_vars

\* threads call the storage; the process may be killed and started again
StoreCrashSpec == Init /\ [][StoreCrashNext]_vars

\* the review queue with its file: construction, put, get, failing writes,
\* and the process killed and started again
QueueFileInit ==
    /\ InitWith(AirConfig)
    /\ boot = BootIdle
    /\ remote = RemoteIdle
    /\ store = StoreIdle
    /\ rq \in {RqInit(file) : file \in QueueFiles}
    /\ api = ApiIdle
    /\ front = FrontIdle
    /\ derive = DeriveIdle
    /\ snap = SnapIdle

QueueFileSpec == QueueFileInit /\ [][QueueFileNext]_vars

\* the operations of the storage on one review, in any order
StorageApiSpec == Init /\ [][StorageApiNext]_vars

\* one call of submit_review for every shape of the request data
FrontInit ==
    /\ InitWith(AirConfig)
    /\ boot = BootIdle
    /\ remote = RemoteIdle
    /\ store = StoreIdle
    /\ rq = RqIdle
    /\ api = ApiIdle
    /\ front \in {FrontCall(data) : data \in FrontData}
    /\ derive = DeriveIdle
    /\ snap = SnapIdle

FrontSpec == FrontInit /\ [][FrontNext]_vars

\* one call of _get_commit_hashes for every hash and work tree
DeriveInit ==
    /\ InitWith(AirConfig)
    /\ boot = BootIdle
    /\ remote = RemoteIdle
    /\ store = StoreIdle
    /\ rq = RqIdle
    /\ api = ApiIdle
    /\ front = FrontIdle
    /\ derive \in {DeriveCall(wt_id, hash_str) :
                      wt_id \in 1..MaxWorkTrees, hash_str \in DeriveHashes}
    /\ snap = SnapIdle

DeriveSpec == DeriveInit /\ [][DeriveNext]_vars

\* the temp copies of every configuration
SnapInit ==
    /\ InitWith(AirConfig)
    /\ boot = BootIdle
    /\ remote = RemoteIdle
    /\ store = StoreIdle
    /\ rq = RqIdle
    /\ api = ApiIdle
    /\ front = FrontIdle
    /\ derive = DeriveIdle
    /\ snap \in {SnapStart(air_config) : air_config \in SnapConfigs}

SnapSpec == SnapInit /\ [][SnapNext]_vars

(***************************************************************************)
(* The claims.                                                             *)
(***************************************************************************)
Terminal == {"done", "error"}

\* the temp copies that are queued or held by an LLM worker
Outstanding ==
    [i \in 1..Len(temp_copy_queue) |-> temp_copy_queue[i]]
    \o [i \in 1..Cardinality({k \in LLMWorkers : llm[k].pc # "idle"}) |->
          llm[CHOOSE k \in LLMWorkers :
                 /\ llm[k].pc # "idle"
                 /\ Cardinality({j \in LLMWorkers : j < k /\ llm[j].pc # "idle"})
                       = i - 1].info]

\* C1: once ReviewQueue.get has returned an item, the item is in none of the
\* in-memory queue, the persisted list queued_items and the backing file.
C1_ReturnedItemIsGone ==
    \A r \in returned :
       /\ r \notin Range(ReviewIds(queue))
       /\ r \notin Range(ReviewIds(queued_items))
       /\ r \notin Range(ReviewIds(queue_file))

\* C2: across crashes and restarts no item whose get has returned is taken from
\* the queue again: a request is handed to a setup worker once.
C2_NoSecondDelivery ==
    \A w \in SetupWorkers :
       setup[w].pc = "got" => setup[w].request.review_id \notin returned

\* C3: when every put has returned and no get has started, a crash and restart
\* gives a queue that delivers the same items in the same order as the queue
\* in memory before the crash.
C3_OrderSurvivesCrash ==
    [][(/\ crashes' = crashes + 1
        /\ dequeued = << >>
        /\ \A r \in DOMAIN submit : submit[r].pc = "done")
       => queue' = queue]_vars

\* C4: while the process runs, the items taken from the request queue followed
\* by the items still in it are the items put, in the order of the puts, and no
\* item is taken twice.
C4_FifoExactlyOnce ==
    /\ dequeued \o ReviewIds(queue) = put_order
    /\ \A r \in DOMAIN reviews : Count(dequeued, r) <= 1

\* two setup workers have taken one request each and are both inside get
C4_Witness ==
    /\ Len(dequeued) >= 2
    /\ \E w1, w2 \in SetupWorkers :
          w1 # w2 /\ setup[w1].pc = "got" /\ setup[w2].pc = "got"

\* C5: no two outstanding temp copies (queued or held by an LLM worker) have
\* the same path.
C5_SingleOwner ==
    \A i, j \in DOMAIN Outstanding :
       i # j => Outstanding[i].temp_path # Outstanding[j].temp_path

\* C6: a review whose status is done or error keeps that status in every step.
C6_TerminalStable ==
    [][\A r \in DOMAIN reviews :
          reviews[r].status \in Terminal => reviews'[r].status = reviews[r].status]_vars

\* C7: a review is done exactly if failed = 0, completed = total, total > 0 and
\* end is set; a review in error has end set.
C7_TerminalConsistency ==
    \A r \in DOMAIN reviews :
       /\ reviews[r].status = "done"
            <=> (/\ reviews[r].failed_patches = 0
                 /\ reviews[r].completed_patches = reviews[r].patch_count
                 /\ reviews[r].patch_count > 0
                 /\ reviews[r].end # None)
       /\ reviews[r].status = "error" => reviews[r].end # None

\* C8: in every state failed <= completed <= total, for every review.
C8_CountsBounded ==
    \A r \in DOMAIN reviews :
       /\ reviews[r].failed_patches <= reviews[r].completed_patches
       /\ reviews[r].completed_patches <= reviews[r].patch_count

\* C9: under fair scheduling, a review whose commits were all emitted (every
\* temp copy of an unmasked patch created, reset and queued) ends done if no
\* patch failed, and in error with the message '<failed> of <total> patches
\* failed review' if one did.
C9_ReviewEnds ==
    \A r \in 1..MaxReviews :
       (r \in emitted) ~>
          (/\ r \in DOMAIN reviews
           /\ \/ /\ reviews[r].status = "done"
                 /\ reviews[r].failed_patches = 0
              \/ /\ reviews[r].status = "error"
                 /\ reviews[r].failed_patches > 0
                 /\ reviews[r].message =
                       FailedMessage(reviews[r].failed_patches, reviews[r].patch_count))

\* C10: the temp copy queue never holds more than 2 x max_claude_runs items, and
\* a setup worker that waits in put on a queue holding that many stays there.
C10_BoundedQueue ==
    [][/\ Len(temp_copy_queue') <= 2 * config.max_claude_runs
       /\ \A w \in SetupWorkers :
             (/\ setup[w].pc = "put"
              /\ Len(temp_copy_queue) = 2 * config.max_claude_runs)
             => setup'[w] = setup[w]]_vars

\* the queue holds 2 x max_claude_runs items and a setup worker waits in put
C10_Witness ==
    /\ Len(temp_copy_queue) = 2 * config.max_claude_runs
    /\ \E w \in SetupWorkers : setup[w].pc = "put"

\* the threads of setup workers WorkerPool.start has made
SetupThreads == {t \in boot.threads : t.name[1] = "Setup"}

\* the start has come to its end: it raised, or every thread has run its target
BootDone ==
    \/ boot.pc = "TypeError"
    \/ boot.pc = "threads" /\ \A t \in boot.threads : t.state # "created"

\* C11: when the service has started there are exactly max_work_trees setup
\* workers in their loop, and the worker started with index i has work tree i
\* (so no two of them have the same work tree).
C11_PinnedWorkTrees ==
    BootDone =>
       /\ Cardinality({t \in SetupThreads : t.state = "running"})
             = config.max_work_trees
       /\ \A t \in SetupThreads :
             t.state = "running" => t.frame.wt_id = Num(t.name[2])

\* C12, as stated: for every remote name at most one 'git remote add' is
\* invoked, whatever the interleaving of the add_remote calls.
C12_AtMostOneRemoteAdd ==
    \A name \in RemoteNames : remote.invoked[name] <= 1

\* C12, amended: 'git remote add' is never invoked while the remote exists, so
\* no remote add follows one that succeeded (one that failed may be followed by
\* another); a call that finds the remote returns True without a remote add.
C12_NoAddOnExistingRemote ==
    [][/\ \A name \in RemoteNames :
             /\ remote'.clashed[name] = 0
             /\ name \in remote.remotes
                   => remote'.invoked[name] = remote.invoked[name]
       /\ \A w \in RemoteCallers :
             (/\ remote.callers[w].pc = "get-url"
              /\ remote.callers[w].name \in remote.remotes
              /\ remote'.callers[w] # remote.callers[w])
             => (/\ remote'.callers[w].result = TRUE
                 /\ remote'.invoked = remote.invoked)]_vars

\* two setup workers are in add_remote for the same name: one runs 'git remote
\* add' under the lock, the other waits for the lock
C12_Witness ==
    \E w1, w2 \in RemoteCallers :
       /\ remote.callers[w1].pc = "add"
       /\ remote.callers[w2].pc = "lock"
       /\ remote.callers[w1].name = remote.callers[w2].name

\* C13: whenever no thread is inside an operation of the storage, metadata.json
\* holds the effect of every call that returned, in the order of their
\* returns: in particular completed_patches of a review has grown by the number
\* of mark_patch_complete calls on it, and the changes of other calls are kept.
C13_NoLostUpdate ==
    (\A t \in 1..StoreThreads : store.threads[t].pc \in {"idle", "lock"})
    => /\ store.file = Valid(store.expected)
       /\ \A r \in 1..2 :
             store.file.data[r].completed_patches = store.marks[r]

\* both threads have returned from mark_patch_complete on review 1, and the
\* patch count another call gave review 2 is in the file
C13_Witness ==
    /\ \A t \in 1..StoreThreads :
          /\ store.threads[t].pc = "idle"
          /\ store.threads[t].call.op = "mark_patch_complete"
          /\ store.threads[t].call.review_id = 1
    /\ store.marks[1] >= 2
    /\ store.file.data[2].patch_count = StorePatchCount + 1

\* C14: after the process was killed, load_metadata of the new process
\* succeeds and gives the map of before the interrupted write or the map that
\* was being written.
C14_WriteAtomic ==
    store.crashed =>
       /\ store.state = "up"
       /\ store.reviews \in {store.before, store.writing}

\* C15: while the queue is in service, queue.json holds a complete list, and
\* every item whose put has returned and whose get has not is in it.
C15_FileComplete ==
    rq.state = "up" =>
       /\ rq.file.valid
       /\ \A item \in rq.put_returned \ rq.got : item \in Range(rq.file.data)

\* C16: the construction of the queue does not fail on a queue.json that is
\* not a serialized list.
C16_CorruptFileTolerated == rq.state # "JSONDecodeError"

\* C17: when a write of queue.json failed in put, the OSError has left put,
\* and the item is in the in-memory queue unless queue.get has handed it out.
C17_SaveFailureSurfaces ==
    \A t \in 1..QueuePutters :
       rq.threads[t].save_failed =>
          /\ rq.threads[t].raised = "OSError"
          /\ t \in Range(rq.queue) \/ t \in rq.taken

\* a put has failed in save_queue and its item waits in the in-memory queue
C17_Witness ==
    \E t \in 1..QueuePutters :
       /\ rq.threads[t].save_failed
       /\ rq.threads[t].raised = "OSError"
       /\ t \in Range(rq.queue)

\* the temp copies of a review that are queued, held by an LLM worker, or about
\* to be queued by a setup worker
Snapshots(r) ==
    {i \in DOMAIN Outstanding : Outstanding[i].review_id = r}
    \cup {w \in SetupWorkers : setup[w].pc = "put" /\ setup[w].request.review_id = r}

\* C18: a review for which a step of the setup failed has the status error, a
\* message in its record and in its message file, and no temp copy.
C18_FatalSetupFailure ==
    \A r \in setup_failed :
       /\ reviews[r].status = "error"
       /\ reviews[r].message # None
       /\ message_file[r] # None
       /\ Snapshots(r) = {}

\* C19: a setup worker that leaves an unmasked patch without a temp copy to
\* queue (the copy or its reset failed) goes on with the next patch of the
\* review, and the status of the review stays as it is.
C19_CopyFailureNotFatal ==
    [][\A w \in SetupWorkers :
          (/\ setup[w].pc = "emit"
           /\ ~Masked(setup[w].request.mask, setup[w].i)
           /\ setup'[w] # setup[w]
           /\ setup'[w].pc # "put")
          => /\ setup'[w] = NextPatch(setup[w], TRUE)
             /\ reviews'[setup[w].request.review_id].status
                   = reviews[setup[w].request.review_id].status]_vars

\* patch i of review r is switched off by the mask of the request
MaskedOff(r, i) ==
    /\ r \in DOMAIN submit
    /\ i <= Len(submit[r].request.mask)
    /\ submit[r].request.mask[i] = FALSE

\* the setup worker of review r is past patch i, or has ended its loop
PastPatch(r, i) ==
    \/ r \in emitted
    \/ \E w \in SetupWorkers :
          setup[w].request.review_id = r /\ setup[w].i > i

C21_BoundedRetry ==
    \A k \in LLMWorkers :
       llm[k].pc # "idle" =>
          LET results == llm[k].results
              failed(n) == \A i \in 1..n : results[i] = "False"
          IN  /\ llm[k].attempt \in 1..config.claude_retries
              /\ llm[k].pc = "run" =>
                    /\ Len(results) = llm[k].attempt - 1
                    /\ failed(Len(results))
                    /\ llm[k].flag = None
              /\ llm[k].pc = "finally" =>
                    /\ Len(results) = llm[k].attempt
                    /\ failed(Len(results) - 1)
              /\ llm[k].flag # None =>
                    (llm[k].flag = "True" <=> "True" \in Range(results))

\* a retry after a failed attempt succeeded and the patch was marked with True
C21_Witness ==
    \E k \in LLMWorkers :
       /\ llm[k].pc = "finally"
       /\ llm[k].results = <<"False", "True">>
       /\ llm[k].flag = "True"

ExactlyTotal(completed, total) == completed = total /\ total > 0
AtLeastTotal(completed, total) == completed >= total /\ total > 0

\* what mark_patch_complete did to review 1 in the last call of the storage,
\* if the review ends when completed equals total (exact) or when completed
\* has reached total
MarkEffect(exact) ==
    api.call.op = "mark_patch_complete" /\ api.call.review_id = 1 =>
       LET b == api.before[1]
           a == api.m[1]
           total == b.patch_count
           ends == IF exact THEN ExactlyTotal(a.completed_patches, total)
                   ELSE AtLeastTotal(a.completed_patches, total)
       IN  /\ a.completed_patches = b.completed_patches + 1
           /\ a.failed_patches =
                 b.failed_patches + (IF api.call.success THEN 0 ELSE 1)
           /\ a.patch_count = total
           /\ IF ends
              THEN /\ a.status = IF a.failed_patches = 0 THEN "done" ELSE "error"
                   /\ a.message = IF a.failed_patches > 0 /\ b.message = None
                                  THEN FailedMessage(a.failed_patches, total)
                                  ELSE b.message
                   /\ a.end # None
              ELSE /\ a.status = b.status
                   /\ a.end = b.end
                   /\ a.message = b.message

C23_WriteOnce ==
    LET b == api.before[1]
        a == api.m[1]
        call == IF api.call.review_id = 1 THEN api.call ELSE NoApiCall
        time == Clock(api.tick - 1)
        terminal == \/ /\ call.op = "update_review_status"
                       /\ call.status \in {"done", "error"}
                    \/ /\ call.op = "mark_patch_complete"
                       /\ a.status \in {"done", "error"}
                       /\ AtLeastTotal(a.completed_patches, a.patch_count)
    IN  /\ b.start # None => a.start = b.start
        /\ b.end # None => a.end = b.end
        /\ b.start_llm # None => a.start_llm = b.start_llm
        /\ b.start = None =>
              a.start = IF call.op = "update_review_status"
                           /\ call.status = "in-progress"
                        THEN time ELSE None
        /\ b.end = None => a.end = IF terminal THEN time ELSE None
        /\ b.start_llm = None =>
              a.start_llm = IF call.op = "set_llm_start_time" THEN time ELSE None

\* every timestamp was set at an earlier time, and the last call was one that
\* would set a timestamp
C23_Witness ==
    /\ api.before[1].start # None
    /\ api.before[1].end # None
    /\ api.before[1].start_llm # None
    /\ api.call.op = "update_review_status"
    /\ api.call.review_id = 1
    /\ api.call.status = "error"

\* C24: In every reachable state of every review, end is set if and only if
\* the status is done or error.
C24_EndIffTerminal ==
    \A r \in DOMAIN reviews :
       reviews[r].end # None <=> reviews[r].status \in Terminal

\* C25: Origin uniqueness on submit.  submit_review accepts the data only if
\* exactly one of patchwork_series_id, patches, hash is present and not empty
\* and tree is present; when it rejects, it raises a ValueError and the
\* metadata map and the queue are as before; the request it enqueues carries
\* exactly one origin key.
C25_OriginUniqueness ==
    /\ front.pc = "returned" =>
          /\ Cardinality({key \in OriginKeys : Has(front.data, key)}) = 1
          /\ Has(front.data, "tree")
          /\ Len(front.reviews) = Len(FrontReviews) + 1
          /\ Len(front.queue) = Len(FrontQueue) + 1
          /\ LET request == front.queue[Len(front.queue)]
             IN  /\ Cardinality(DOMAIN request \cap OriginKeys) = 1
                 /\ \A key \in DOMAIN request \cap OriginKeys :
                       Has(front.data, key)
    /\ front.pc = "raised" =>
          /\ front.raised # None
          /\ front.reviews = FrontReviews
          /\ front.queue = FrontQueue

\* data with two origins and a tree was rejected
C25_Witness ==
    /\ front.pc = "raised"
    /\ Has(front.data, "hash")
    /\ Has(front.data, "patches")
    /\ Has(front.data, "tree")

\* C26: Read authorization.  get_review returns a record if and only if the
\* review exists and the token of the caller is the token of the owner or the
\* caller is a superuser; for any other caller it returns None.
C26_ReadAuthorization ==
    \A review_id \in 1..MaxReviews, token \in DOMAIN TokenDb :
       get_review(reviews, review_id, token) # {} <=>
          /\ review_id \in DOMAIN reviews
          /\ \/ reviews[review_id].token = token
             \/ is_superuser(token)

\* C27: peek_ahead.  For a review in the queue the position is its index and
\* the patches ahead are the sum of patch_count of the items before it; for a
\* queued review that is not in the queue the result is None, not a number.
C27_PeekAhead ==
    \A review_id \in DOMAIN reviews :
       reviews[review_id].status = "queued" =>
          LET ids == ReviewIds(queued_items)
              position == get_position(queued_items, review_id)
              ahead == get_patch_count_ahead(queued_items, review_id)
          IN  IF review_id \in Range(ids)
              THEN \E i \in DOMAIN ids :
                      /\ ids[i] = review_id
                      /\ \A j \in 1..(i - 1) : ids[j] # review_id
                      /\ position = {i - 1}
                      /\ ahead = {PatchCountSum(queued_items, i - 1)}
              ELSE position = {} /\ ahead = {}

\* C28: Dense numbering.  Every temp copy on the temp copy queue or held by an
\* LLM worker and every call of mark_patch_complete carries a patch number in
\* 1..total, no patch number of a review is marked twice, and for a review
\* with status done the patch numbers marked are exactly 1..total.
C28_DenseNumbering ==
    /\ \A info \in Range(temp_copy_queue)
                   \cup {llm[k].info : k \in {l \in LLMWorkers : llm[l].pc # "idle"}} :
          /\ info.review_id \in DOMAIN reviews
          /\ info.patch_num \in 1..reviews[info.review_id].patch_count
    /\ \A r \in DOMAIN reviews :
          LET numbers == {i \in DOMAIN marked[r] : marked[r][i] > 0}
          IN  /\ numbers \subseteq 1..reviews[r].patch_count
              /\ \A i \in numbers : marked[r][i] = 1
              /\ reviews[r].status = "done" =>
                    numbers = 1..reviews[r].patch_count

\* C29: Every temp copy taken from the queue is accounted for.  When the
\* worker is done with process_temp_copy, on any exit path, and before it
\* takes the next item, mark_patch_complete has been called once for the copy.
C29_MarkedBeforeNext ==
    \A k \in LLMWorkers :
       /\ llm[k].pc = "finally" => llm[k].flag # None
       /\ llm[k].pc # "idle" =>
             marked[llm[k].info.review_id][llm[k].info.patch_num] =
                IF llm[k].flag # None THEN 1 ELSE 0

\* the LLM worker k is done with its temp copy
Finally(k) == llm[k].pc = "finally" /\ llm'[k].pc = "idle"

\* C30: Snapshot cleanup.  With keep_temp_trees unset the directory of the
\* temp copy is gone when the worker has left the finally block, on every
\* exit path of process_temp_copy; the worker takes an item only after the
\* finally block of the one before; task_done is called once per item taken
\* (the tasks not done are the items queued and the items held).
C30_SnapshotCleanup ==
    /\ [](unfinished_tasks = Len(temp_copy_queue)
                             + Cardinality({k \in LLMWorkers : llm[k].pc # "idle"}))
    /\ [][\A k \in LLMWorkers :
             /\ Finally(k) =>
                   /\ llm[k].info.temp_path \notin temp_dirs'
                   /\ unfinished_tasks' = unfinished_tasks - 1
             /\ llm'[k].pc = "run" /\ llm[k].pc # "run" => llm[k].pc = "idle"
             /\ llm'[k].pc = "idle" /\ llm[k].pc # "idle" => Finally(k)]_vars

\* after an exception left process_temp_copy (a patch of an emitted review
\* was never marked) every worker is idle again, no task is left and no
\* directory of a temp copy exists
C30_Witness ==
    /\ \A k \in LLMWorkers : llm[k].pc = "idle"
    /\ \A w \in SetupWorkers : setup[w].pc = "idle"
    /\ temp_copy_queue = << >>
    /\ unfinished_tasks = 0
    /\ temp_dirs = {}
    /\ \E r \in emitted :
          /\ reviews[r].status = "in-progress"
          /\ \E i \in 1..reviews[r].patch_count : marked[r][i] = 0

\* C36: for a hash origin the range is '<hash>^..<hash>' when the value has no
\* '..' and the value itself otherwise, and the patch list is the output of
\* git rev-list for that range reversed: as many patches as commits listed,
\* patch 1 the oldest commit and the last patch the newest.
C36_CommitDerivation ==
    derive.pc = "return" =>
       LET hash_str == derive.hash
           git_range == IF ".." \in Range(hash_str)
                        THEN hash_str
                        ELSE hash_str \o <<"^", "..">> \o hash_str
           listed == RevList(git_range)
       IN  /\ derive.git_range = git_range
           /\ Len(derive.commit_hashes) = Len(listed)
           /\ \A i \in 1..Len(listed) :
                 derive.commit_hashes[i] = listed[Len(listed) + 1 - i]

C40_UnknownReviewNoOp ==
    api.call.op # None /\ api.call.review_id \notin DOMAIN api.before =>
       /\ DOMAIN api.m = DOMAIN api.before
       /\ \A review_id \in DOMAIN api.before :
             api.m[review_id] = api.before[review_id]

\* the last call named an unknown review, and the same call for the review of
\* the map would have changed its record
C40_Witness ==
    /\ api.call.review_id \notin DOMAIN api.before
    /\ \/ /\ api.call.op = "mark_patch_complete"
          /\ mark_patch_complete(api.before, 1, 1, api.call.success) # api.before
       \/ /\ api.call.op = "set_patch_count"
          /\ set_patch_count(api.before, 1, api.call.count) # api.before
    /\ api.before[1].status = "in-progress"
    /\ api.before[1].start_llm = None

\* C31: when git_reset_hard of a fresh temp copy fails, the setup worker
\* removes that temp copy, puts nothing on the temp copy queue for the patch,
\* does not call mark_patch_complete, leaves the metadata of every review as
\* it is, and goes on with the next patch of the review (or, after the last
\* patch, with the next request).
C31_ResetFailureSkips ==
    [][\A w \in SetupWorkers :
          (/\ setup[w].pc = "emit"
           /\ ~Masked(setup[w].request.mask, setup[w].i)
           /\ git_reset_hard_failed(w))
          => LET s == setup[w]
                 total == Len(commit_hashes(s.request))
                 temp_path == temp_copy_path(w, commit_hashes(s.request)[s.i])
             IN  /\ temp_path \notin temp_dirs'
                 /\ temp_copy_queue' = temp_copy_queue
                 /\ unfinished_tasks' = unfinished_tasks
                 /\ marked' = marked
                 /\ reviews' = reviews
                 /\ IF s.i < total
                    THEN /\ setup'[w].pc = "emit"
                         /\ setup'[w].request = s.request
                         /\ setup'[w].i = s.i + 1
                    ELSE setup'[w].pc = "idle"
    ]_vars

\* the reset of the temp copy of patch 1 failed: the worker is at patch 2, no
\* temp copy of patch 1 is on disk or in the queue, the patch is not marked
\* and the review is in progress
C31_Witness ==
    \E w \in SetupWorkers :
       LET s == setup[w]
           r == s.request.review_id
       IN  /\ s.pc = "emit"
           /\ s.i = 2
           /\ s.skipped
           /\ ~Masked(s.request.mask, 1)
           /\ temp_copy_path(w, commit_hashes(s.request)[1]) \notin temp_dirs
           /\ \A n \in DOMAIN temp_copy_queue : temp_copy_queue[n].review_id # r
           /\ \A k \in LLMWorkers : llm[k].pc = "idle"
           /\ marked[r][1] = 0
           /\ reviews[r].status = "in-progress"
           /\ reviews[r].completed_patches = 0

\* the calls of mark_patch_complete the LLM workers made for a patch
MarkedByLLM(r, i) == marked[r][i] - mask_marked[r][i]

\* C32: the temp copies of one review enter the temp copy queue in strictly
\* increasing patch number, and with one LLM worker the calls of
\* mark_patch_complete for those temp copies are made in the same increasing
\* order, however the steps of other reviews and workers interleave.
\*  - a put appends a patch whose number is larger than that of every temp copy
\*    of the review that is queued, held by an LLM worker or marked already;
\*  - an LLM worker marks a patch only if no patch of the review with the same
\*    or a larger number was marked by an LLM worker before, and no temp copy of
\*    the review with a smaller number waits in the queue.
C32_OrderWithinReview ==
    [][/\ Len(temp_copy_queue') = Len(temp_copy_queue) + 1 =>
             LET item == temp_copy_queue'[Len(temp_copy_queue')]
                 r == item.review_id
             IN  /\ \A n \in DOMAIN Outstanding :
                       Outstanding[n].review_id = r
                          => Outstanding[n].patch_num < item.patch_num
                 /\ \A j \in DOMAIN History :
                       MarkedByLLM(r, j) > 0 => j < item.patch_num
       /\ config.max_claude_runs = 1 =>
             \A r \in DOMAIN reviews, i \in DOMAIN History :
                (marked'[r][i] > marked[r][i] /\ mask_marked' = mask_marked)
                   => /\ \A j \in DOMAIN History :
                            j >= i => MarkedByLLM(r, j) = 0
                      /\ \A n \in DOMAIN temp_copy_queue :
                            temp_copy_queue[n].review_id = r
                               => temp_copy_queue[n].patch_num > i
    ]_vars

\* both patches of a review went through the temp copy queue, while a temp
\* copy of the other review was queued between them, and the LLM worker has
\* marked both
C32_Witness ==
    \E r \in DOMAIN reviews :
       /\ MarkedByLLM(r, 1) = 1
       /\ MarkedByLLM(r, 2) = 1
       /\ \E q \in DOMAIN reviews : q # r /\ MarkedByLLM(q, 1) = 1
       /\ \A k \in LLMWorkers : llm[k].pc = "finally" /\ llm[k].info.review_id = r
                                   /\ llm[k].info.patch_num = 2

\* the number of commits derived for a review
Derived(r) == Len(commit_hashes([hash |-> reviews[r].hash]))

\* C33: a setup worker sets the status of its review to in-progress before any
\* other step of the setup, and sets patch_count to the number of derived
\* commits before the first mark_patch_complete of a masked patch and before
\* the first temp copy is put on the temp copy queue; so no call of
\* mark_patch_complete finds a patch_count of 0.
C33_SetupStepOrder ==
    /\ [](\A w \in SetupWorkers :
             setup[w].pc \in {"setup", "emit", "put"}
                => reviews[setup[w].request.review_id].status # "queued")
    /\ [](\A r \in DOMAIN reviews :
             reviews[r].status = "queued"
                => /\ reviews[r].patch_count = 0
                   /\ \A i \in DOMAIN History : marked[r][i] = 0
                   /\ Snapshots(r) = {})
    /\ [](\A r \in DOMAIN reviews :
             (\/ \E i \in DOMAIN History : marked[r][i] > 0
              \/ Snapshots(r) # {}
              \/ \E w \in SetupWorkers : /\ setup[w].pc \in {"emit", "put"}
                                         /\ setup[w].request.review_id = r)
                => /\ reviews[r].patch_count > 0
                   /\ reviews[r].patch_count = Derived(r))
    /\ [][\A r \in DOMAIN reviews :
             marked' # marked /\ marked'[r] # marked[r]
                => reviews[r].patch_count > 0]_vars

\* the first patch of a review of two commits is masked and was marked, the
\* temp copy of the second one is in the queue, and patch_count is 2
C33_Witness ==
    \E r \in DOMAIN reviews :
       /\ reviews[r].status = "in-progress"
       /\ reviews[r].patch_count = 2
       /\ mask_marked[r][1] = 1
       /\ reviews[r].completed_patches = 1
       /\ \E n \in DOMAIN temp_copy_queue :
             /\ temp_copy_queue[n].review_id = r
             /\ temp_copy_queue[n].patch_num = 2

\* an LLM worker ends an attempt on patch 1 of review r in this step, and
\* _run_claude_review returns one of the given results
AttemptOnFirstPatch(r, k, outcomes) ==
    /\ llm[k].pc = "run"
    /\ llm[k].info.review_id = r
    /\ llm[k].info.patch_num = 1
    /\ Len(llm'[k].results) = Len(llm[k].results) + 1
    /\ llm'[k].results[Len(llm'[k].results)] \in outcomes

\* C34, as stated: start-llm of a review is recorded on the first successful
\* attempt of patch 1 and only then, not by a failed attempt and not by an
\* attempt on another patch.
C34_StartOnFirstSuccess ==
    [][\A r \in DOMAIN reviews :
          reviews'[r].start_llm # reviews[r].start_llm
             => \E k \in LLMWorkers : AttemptOnFirstPatch(r, k, {"True"})]_vars

\* C34, amended: start-llm of a review is recorded by the first attempt on
\* patch 1, when that attempt reaches its try block, whether it then succeeds
\* or fails, and only then: not by an attempt on another patch, not by a later
\* attempt, and a recorded value is never changed.
C34_StartOnFirstAttempt ==
    [][\A r \in DOMAIN reviews :
          /\ reviews'[r].start_llm # reviews[r].start_llm
                => /\ reviews[r].start_llm = None
                   /\ \E k \in LLMWorkers :
                         /\ AttemptOnFirstPatch(r, k, {"True", "False"})
                         /\ llm[k].attempt = 1
          /\ \A k \in LLMWorkers :
                AttemptOnFirstPatch(r, k, {"True", "False"}) /\ llm[k].attempt = 1
                   => reviews'[r].start_llm # None]_vars

\* the first attempt on patch 1 failed, the second one is about to run, and
\* start-llm is recorded
C34_Witness ==
    \E k \in LLMWorkers :
       /\ llm[k].pc = "run"
       /\ llm[k].info.patch_num = 1
       /\ llm[k].attempt = 2
       /\ llm[k].results = <<"False">>
       /\ reviews[llm[k].info.review_id].start_llm # None

\* C35: an exception that leaves process_review is caught by the loop of the
\* setup worker, which sets the status of that review to error with a message
\* 'Setup failed: ...'; an exception that leaves process_temp_copy is caught by
\* the loop of the LLM worker, which changes no record.  In both cases the
\* record of no other review changes, no other thread is touched and the
\* worker goes back to its queue for the next item.
C35_WorkerLoopContainment ==
    [][/\ \A w \in SetupWorkers, command \in {"git rev-list", "cp"} :
             (setup[w].pc \in {"setup", "emit"} /\ worker_loop_except(w, command))
                => LET r == setup[w].request.review_id
                   IN  /\ reviews'[r].status = "error"
                       /\ reviews'[r].message = "Setup failed: " \o command
                       /\ \A q \in DOMAIN reviews \ {r} : reviews'[q] = reviews[q]
                       /\ setup'[w].pc = "idle"
                       /\ \A v \in SetupWorkers \ {w} : setup'[v] = setup[v]
                       /\ llm' = llm
                       /\ queue' = queue
                       /\ temp_copy_queue' = temp_copy_queue
       /\ \A k \in LLMWorkers :
             (/\ llm[k].pc = "run"
              /\ llm'[k].results = Append(llm[k].results, "raised"))
                => /\ reviews' = reviews
                   /\ llm'[k].pc = "finally"
                   /\ \A j \in LLMWorkers \ {k} : llm'[j] = llm[j]
                   /\ setup' = setup
                   /\ temp_copy_queue' = temp_copy_queue
       /\ \A k \in LLMWorkers :
             (llm[k].pc = "finally" /\ llm'[k] # llm[k])
                => /\ llm'[k].pc = "idle"
                   /\ reviews' = reviews
    ]_vars

\* an exception left process_temp_copy for a patch of a review whose patches
\* were all queued (the patch is not marked and its temp copy is gone), the
\* LLM worker is working on the next temp copy, and the setup of the other
\* review ended with an exception of cp
C35_Witness ==
    /\ \E r \in emitted :
          /\ \A w \in SetupWorkers : setup[w].request.review_id # r
          /\ \E i \in 1..Derived(r) :
                /\ marked[r][i] = 0
                /\ \A n \in DOMAIN Outstanding :
                      ~(Outstanding[n].review_id = r /\ Outstanding[n].patch_num = i)
    /\ \E k \in LLMWorkers : llm[k].pc = "run"
    /\ \E q \in DOMAIN reviews :
          /\ reviews[q].status = "error"
          /\ reviews[q].message = "Setup failed: cp"

\* C38: in every state, also after a crash and restart, the request of every
\* review with the status queued is in the request queue or held by a setup
\* worker that has taken it and has not yet set the review to in-progress
\* (a review whose submit_review call is still running is not counted).
C38_NoOrphanedQueued ==
    \A r \in DOMAIN reviews :
       reviews[r].status = "queued"
          => \/ submit[r].pc \in {"put", "lock"}
             \/ r \in Range(ReviewIds(queue))
             \/ \E w \in SetupWorkers : /\ setup[w].pc \in {"got", "start"}
                                        /\ setup[w].request.review_id = r

\* C39: whenever no call of put or get is in progress, queued_items holds
\* exactly the items of the in-memory queue in the same order, so size()
\* equals the length of the persisted list.
C39_QueueViewsAgree ==
    (/\ \A r \in DOMAIN submit : submit[r].pc # "lock"
     /\ \A w \in SetupWorkers : setup[w].pc # "got")
       => /\ queued_items = queue
          /\ Len(queue) = Len(queued_items)

====
